---- MODULE Spec2Model ----
(***************************************************************************)
(* Hydra+ plugin (src/Hydra+_Plugin/__init__.py): the track acquisition    *)
(* state machine.  One track search session is followed from the poll      *)
(* loop's _trigger_search through candidate collection, the download       *)
(* decision, the cascade launches of HEAD2/HEAD3, the liveness monitor and *)
(* winner arbitration in download_finished_notification.                   *)
(*                                                                         *)
(* Threads of the plugin, none of which takes a lock:                      *)
(*   - the poll thread (_poll_queue): per iteration _trigger_search,       *)
(*     _check_and_download_ready_searches, _check_cascade_launches,        *)
(*     _monitor_downloads, then a sleep;                                   *)
(*   - the progress thread (_monitor_download_progress);                   *)
(*   - the host's callbacks: _on_file_search_response and                  *)
(*     download_finished_notification, one invocation per finished         *)
(*     transfer.  The invocations of download_finished_notification are    *)
(*     modelled as processes whose steps are the handler's blocks between  *)
(*     accesses to the shared session, so that two notifications can       *)
(*     interleave.                                                         *)
(* enqueue_download is taken as in the host: it does not raise, and it     *)
(* ignores a (user, path) pair that is already in the transfer queue.      *)
(* Time is a counter of seconds that the poll thread's sleep advances;     *)
(* one poll iteration (the checks, then the sleep) is one step.            *)
(***************************************************************************)
EXTENDS Integers, Sequences, FiniteSets, TLC

VARIABLES
    now,               \* time.time(), in seconds
    pending,           \* searches waiting in the upstream queue
    active,            \* token in self.active_searches
    search_info,       \* self.active_searches[token], the session dict
    active_downloads,  \* keys of self.active_downloads (they map to the token)
    transfers,         \* core.downloads.transfers, in insertion order
    dfn_pc,            \* per transfer: position of its completion handler
    disk,              \* per transfer: state of its output file
    processed,         \* transfers handed to _process_downloaded_file
    enqueued,          \* log of the enqueue_download calls
    seen,              \* history: the results received so far
    album_complete,    \* the final 100% album progress update has been sent
    active_searches,   \* self.active_searches where several sessions are tracked
    poll_log,          \* history: what the last callback or poll iteration did
    metadata_cache,    \* self.metadata_cache: its entries in insertion order
    last_cleanup_time  \* self.last_cleanup_time

\* The state of the specifications that track several sessions at once; the
\* others leave it alone.
registry == <<active_searches, poll_log, metadata_cache, last_cleanup_time>>

vars == <<now, pending, active, search_info, active_downloads,
          transfers, dfn_pc, disk, processed, enqueued, seen, album_complete,
          registry>>

-----------------------------------------------------------------------------
(* Bounds of the model *)

TimeStep == 10
MaxTime == 140
MaxResults == 3

(* Thresholds of the program *)

MinCollect == 15
MaxCollect == 30
GoodScore == 100
ViableScore == 50
Head2NoStart == 10
Head2Timeout == 60
Head3Timeout == 120
StallCheck == 60
SearchTimeout == 300
TopK == 5
ViableWindow == 3

\* The scores a result can get (one per band of the decision thresholds).
Scores == {40, 60, 140, 180}

\* Peers are numbered by arrival; peers of the same parity share one
\* virtual path, so that two candidates can differ in the peer alone.
FileOf(u) == u % 2

None == -1

-----------------------------------------------------------------------------
(* Helpers *)

Key(user, file) == <<user, file>>

Min(a, b) == IF a < b THEN a ELSE b

\* The value of a local variable: the element of a one-element set.
The(S) == CHOOSE x \in S : TRUE

\* Variant: the list is never cut.
Take_NoCut(s, n) == s

\* list[:n]
Take(s, n) == SubSeq(s, 1, Min(n, Len(s)))

\* Variant: an unstable sort, a later element goes ahead of its equals.
RECURSIVE InsertDesc_Unstable(_, _)
InsertDesc_Unstable(sorted, c) ==
    IF sorted = <<>> THEN <<c>>
    ELSE IF Head(sorted).score > c.score
         THEN <<Head(sorted)>> \o InsertDesc_Unstable(Tail(sorted), c)
         ELSE <<c>> \o sorted

\* list.sort(key=score, reverse=True): stable insertion of each element.
RECURSIVE InsertDesc(_, _)
InsertDesc(sorted, c) ==
    IF sorted = <<>> THEN <<c>>
    ELSE IF Head(sorted).score >= c.score
         THEN <<Head(sorted)>> \o InsertDesc(Tail(sorted), c)
         ELSE <<c>> \o sorted

RECURSIVE SortDesc(_)
SortDesc(s) ==
    IF s = <<>> THEN <<>>
    ELSE InsertDesc(SortDesc(SubSeq(s, 1, Len(s) - 1)), s[Len(s)])

\* Index of the first transfer of the queue with this virtual path (0: none).
FirstByPath(tr, file) ==
    LET hits == {i \in 1..Len(tr) : tr[i].inqueue /\ tr[i].file = file}
    IN IF hits = {} THEN 0 ELSE CHOOSE i \in hits : \A j \in hits : i <= j

\* Index of the transfer of the queue with this key (0: none).
ByKey(tr, k) ==
    LET hits == {i \in 1..Len(tr) : tr[i].inqueue /\ Key(tr[i].user, tr[i].file) = k}
    IN IF hits = {} THEN 0 ELSE CHOOSE i \in hits : \A j \in hits : i <= j

\* The world the plugin's helpers act on.
World == [si |-> search_info, ad |-> active_downloads, tr |-> transfers,
          act |-> active, log |-> enqueued, pcs |-> dfn_pc, dsk |-> disk,
          fin |-> album_complete]

SetWorld(w) ==
    /\ search_info' = w.si
    /\ active_downloads' = w.ad
    /\ transfers' = w.tr
    /\ active' = w.act
    /\ enqueued' = w.log
    /\ dfn_pc' = w.pcs
    /\ disk' = w.dsk
    /\ album_complete' = w.fin

-----------------------------------------------------------------------------
(* The host's transfer queue *)

\* core.downloads.enqueue_download: a new queued transfer, unless the
\* (user, path) pair is already in the queue.
EnqueueDownload(w, c) ==
    IF ByKey(w.tr, Key(c.user, c.file)) # 0 THEN w
    ELSE [w EXCEPT !.tr = Append(@, [user |-> c.user, file |-> c.file,
                                      status |-> "Queued", offset |-> 0,
                                      inqueue |-> TRUE]),
                   !.pcs = Append(@, "idle"),
                   !.dsk = Append(@, "none")]

\* core.downloads.clear_downloads([transfer]): the transfer stops and
\* leaves the queue.
ClearDownload(w, i) ==
    [w EXCEPT !.tr[i].inqueue = FALSE,
              !.tr[i].status = IF @ = "Finished" THEN @ ELSE "CANCELLED"]

\* core.downloads.abort_transfer(transfer): the transfer stops and stays
\* in the queue.
AbortTransfer(w, i) ==
    [w EXCEPT !.tr[i].status = IF @ = "Finished" THEN @ ELSE "CANCELLED"]

-----------------------------------------------------------------------------
(* Plugin helpers *)

\* _abort_transfer_by_path(virtual_path, username, remove_from_tracking)
AbortTransferByPath(w, file, user, remove) ==
    LET i == FirstByPath(w.tr, file)
    IN IF i = 0 THEN w
       ELSE LET w1 == ClearDownload(w, i)
            IN IF remove THEN [w1 EXCEPT !.ad = @ \ {Key(user, file)}] ELSE w1

\* _try_download_candidate(token, search_info, attempt_index, reason), t = time.time()
TryDownloadCandidate(w, idx, t) ==
    IF idx >= Len(w.si.download_candidates)
    THEN [w EXCEPT !.act = FALSE]
    ELSE LET c == w.si.download_candidates[idx + 1]
             w1 == EnqueueDownload(w, c)
             head == [index |-> idx, user |-> c.user, file |-> c.file,
                      started_at |-> t, score |-> c.score]
         IN [w1 EXCEPT !.log = Append(@, head),
                       !.si.current_attempt = idx,
                       !.si.download_started_at = t,
                       !.si.last_download_path = c.file,
                       !.si.last_download_user = c.user,
                       !.ad = @ \cup {Key(c.user, c.file)},
                       !.si.cascade_heads =
                           IF w.si.cascade_mode THEN Append(@, head) ELSE @]

\* A retry that does not look at the session's mode.
TryNextDownloadCandidate_AnyMode(w, t) ==
    LET w1 == IF w.si.last_download_path # None
              THEN AbortTransferByPath(w, w.si.last_download_path,
                                       w.si.last_download_user, TRUE)
              ELSE w
    IN TryDownloadCandidate(w1, w.si.current_attempt + 1, t)

\* _try_next_download_candidate(token, search_info, reason)
TryNextDownloadCandidate(w, t) ==
    IF w.si.cascade_mode THEN w
    ELSE LET w1 == IF w.si.last_download_path # None
                   THEN AbortTransferByPath(w, w.si.last_download_path,
                                            w.si.last_download_user, TRUE)
                   ELSE w
         IN TryDownloadCandidate(w1, w.si.current_attempt + 1, t)

-----------------------------------------------------------------------------
(* Initial state: the plugin is constructed, one search waits upstream *)

\* No registry of several sessions, an empty cache.
NoRegistry ==
    /\ active_searches = <<>>
    /\ poll_log = <<>>
    /\ metadata_cache = <<>>
    /\ last_cleanup_time = 0

NoSession ==
    [timestamp |-> None,
     download_candidates |-> <<>>,
     current_attempt |-> -1,
     download_started_at |-> None,
     last_download_path |-> None,
     last_download_user |-> None,
     result_count |-> 0,
     cascade_mode |-> FALSE,
     cascade_start_time |-> None,
     cascade_head1_started |-> FALSE,
     cascade_heads_launched |-> 1,
     cascade_heads |-> <<>>,
     cascade_winner |-> 0]

Init ==
    /\ now = 0
    /\ pending = 1
    /\ active = FALSE
    /\ search_info = NoSession
    /\ active_downloads = {}
    /\ transfers = <<>>
    /\ dfn_pc = <<>>
    /\ disk = <<>>
    /\ processed = {}
    /\ enqueued = <<>>
    /\ seen = <<>>
    /\ album_complete = FALSE /\ NoRegistry

-----------------------------------------------------------------------------
(* The poll thread *)

\* _poll_queue: the pending search is fetched and _trigger_search registers it.
TriggerSearch ==
    /\ pending > 0
    /\ pending' = pending - 1
    /\ active' = TRUE
    /\ search_info' = [NoSession EXCEPT !.timestamp = now]
    /\ UNCHANGED <<now, active_downloads, transfers, dfn_pc, disk, processed,
                   enqueued, seen, album_complete, registry>>

\* Number of the first three candidates that score above the viable score.
ViableCount(cands) ==
    Cardinality({i \in 1..Min(ViableWindow, Len(cands)) : cands[i].score > ViableScore})

\* The cascade tracking is initialised and HEAD1 is started.
StartCascade(w, t) ==
    TryDownloadCandidate(
        [w EXCEPT !.si.cascade_mode = TRUE,
                  !.si.cascade_start_time = t,
                  !.si.cascade_head1_started = FALSE,
                  !.si.cascade_heads_launched = 1,
                  !.si.cascade_heads = <<>>], 0, t)

\* A dwell that ends 5 s early.
DwellOver_Early(elapsed) == elapsed >= MinCollect - 5

\* The minimum dwell of the collection window is over.
DwellOver(elapsed) == elapsed >= MinCollect

\* The best candidate is good enough to stop collecting.
BestIsGood(cands, elapsed) ==
    cands # <<>> /\ cands[1].score > GoodScore /\ DwellOver(elapsed)

\* A collection window that closes at 30 s instead of after it.
CollectionTimedOut_At30(elapsed) == elapsed >= MaxCollect

\* The collection window is over.
CollectionTimedOut(elapsed) == elapsed > MaxCollect

\* The best candidate is worth downloading at the timeout.
BestIsViable(cands) == cands # <<>> /\ cands[1].score > ViableScore

\* Cascade when a candidate among the first three is viable, else single.
CascadeOrSingle(w, t) ==
    IF ViableCount(w.si.download_candidates) >= 1
    THEN StartCascade(w, t)
    ELSE TryDownloadCandidate(w, 0, t)

\* Variant: the attempt index is not looked at.
AlreadyAttempted_Never(si) == FALSE

\* A download has been attempted for the session: current_attempt is -1
\* until _try_download_candidate stores the index of the candidate.
AlreadyAttempted(si) == si.current_attempt >= 0

\* _check_track_download_ready(token, search_info, current_time)
CheckTrackDownloadReady(w, t) ==
    LET elapsed == t - w.si.timestamp
        cands == w.si.download_candidates
    IN IF w.si.cascade_mode THEN w
       ELSE IF AlreadyAttempted(w.si) THEN w
       ELSE IF ~DwellOver(elapsed) THEN w
       ELSE IF BestIsGood(cands, elapsed) THEN CascadeOrSingle(w, t)
       ELSE IF CollectionTimedOut(elapsed)
            THEN IF BestIsViable(cands)
                 THEN CascadeOrSingle(w, t)
                 ELSE [w EXCEPT !.act = FALSE]
       ELSE w

\* _check_and_download_ready_searches
CheckAndDownloadReadySearches(w, t) ==
    IF w.act THEN CheckTrackDownloadReady(w, t) ELSE w

\* The score gates of HEAD2 and HEAD3.
Head2Viable(cands) == Len(cands) >= 2 /\ cands[2].score > ViableScore

Head3Viable(cands) == Len(cands) >= 3 /\ cands[3].score > ViableScore

\* A HEAD2 trigger that ignores whether HEAD1 was seen transferring.
Head2Trigger_Blind(started, elapsed) == elapsed >= Head2NoStart

\* A HEAD3 trigger that fires at HEAD2's timeout.
Head3Trigger_Early(elapsed) == elapsed >= Head2Timeout

\* HEAD2 is due: HEAD1 not seen transferring after 10 s, or seen and 60 s over.
Head2Trigger(started, elapsed) ==
    \/ ~started /\ elapsed >= Head2NoStart
    \/ started /\ elapsed >= Head2Timeout

\* HEAD3 is due.
Head3Trigger(elapsed) == elapsed >= Head3Timeout

\* _check_cascade_launches, the body of the loop for one session
CheckCascadeSession(w, t) ==
    LET elapsed == t - w.si.cascade_start_time
        launched == w.si.cascade_heads_launched
        cands == w.si.download_candidates
    IN IF ~w.si.cascade_mode THEN w
       ELSE IF launched = 1 /\ Head2Viable(cands)
            THEN IF Head2Trigger(w.si.cascade_head1_started, elapsed)
                 THEN [TryDownloadCandidate(w, 1, t) EXCEPT !.si.cascade_heads_launched = 2]
                 ELSE w
       ELSE IF launched = 2 /\ Head3Viable(cands)
            THEN IF Head3Trigger(elapsed)
                 THEN [TryDownloadCandidate(w, 2, t) EXCEPT !.si.cascade_heads_launched = 3]
                 ELSE w
       ELSE w

\* _check_cascade_launches
CheckCascadeLaunches(w, t) ==
    IF w.act THEN CheckCascadeSession(w, t) ELSE w

TerminalStatus == {"USER_LOGGED_OFF", "CONNECTION_CLOSED", "CONNECTION_TIMEOUT",
                   "FILTERED", "CANCELLED"}

\* Variant: a monitor without the five minute limit.
SearchTimedOut_Never(search_elapsed) == FALSE

\* The session has been registered for more than five minutes.
SearchTimedOut(search_elapsed) == search_elapsed > SearchTimeout

\* _monitor_downloads, the body of the loop for one track session
MonitorTrackSession(w, t) ==
    IF w.si.current_attempt < 0 THEN w
    ELSE LET i == FirstByPath(w.tr, w.si.last_download_path)
             stuck == i # 0 /\ w.tr[i].offset = 0
             failed == i # 0 /\ w.tr[i].offset > 0 /\ w.tr[i].status \in TerminalStatus
             w1 == IF t - w.si.download_started_at > StallCheck
                   THEN IF i = 0 THEN TryNextDownloadCandidate(w, t)
                        ELSE IF stuck THEN TryNextDownloadCandidate(AbortTransfer(w, i), t)
                        ELSE IF failed THEN TryNextDownloadCandidate(w, t)
                        ELSE w
                   ELSE w
         IN IF SearchTimedOut(t - w.si.timestamp)
            THEN [w1 EXCEPT !.act = FALSE]
            ELSE w1

\* _monitor_downloads
MonitorDownloads(w, t) ==
    IF w.act THEN MonitorTrackSession(w, t) ELSE w

\* One iteration of the loop of _poll_queue once the search is registered:
\* the three checks in the order of the loop, then the sleep.  The clock is
\* read through a registered session only, so it stops with the session.
PollIteration(w, t) ==
    The({MonitorDownloads(w2, t) :
            w2 \in {The({CheckCascadeLaunches(w1, t) :
                            w1 \in {CheckAndDownloadReadySearches(w, t)}})}})

PollQueueEvery(step, limit) ==
    /\ pending = 0
    /\ active
    /\ now <= limit
    /\ \E w \in {PollIteration(World, now)} : SetWorld(w)
    /\ now' = now + step
    /\ UNCHANGED <<pending, processed, seen, registry>>

PollQueue == PollQueueEvery(TimeStep, MaxTime)

-----------------------------------------------------------------------------
(* The host's callbacks and the transfers *)

\* _on_file_search_response -> _process_track_search_results, for a batch
\* of one file of peer u scored sc by _calculate_file_score.
ProcessTrackSearchResults(si, u, sc) ==
    LET c == [file |-> FileOf(u), user |-> u, score |-> sc]
    IN [si EXCEPT !.download_candidates = Take(SortDesc(Append(@, c)), TopK),
                  !.result_count = @ + 1]

FileSearchResponse(max, scores) ==
    /\ active
    /\ search_info.result_count < max
    /\ \E sc \in scores :
          search_info' = ProcessTrackSearchResults(search_info,
                                                   search_info.result_count + 1, sc)
    /\ UNCHANGED <<now, pending, active, active_downloads, transfers,
                   dfn_pc, disk, processed, enqueued, seen, album_complete, registry>>

OnFileSearchResponse == FileSearchResponse(MaxResults, Scores)

Running(i) == transfers[i].inqueue /\ transfers[i].status \in {"Queued", "Transferring"}

\* The peer starts sending: current_byte_offset becomes positive.
TransferProgress(i) ==
    /\ Running(i)
    /\ transfers[i].offset = 0
    /\ transfers' = [transfers EXCEPT ![i].status = "Transferring",
                                      ![i].offset = 1]
    /\ UNCHANGED <<now, pending, active, search_info, active_downloads,
                   dfn_pc, disk, processed, enqueued, seen, album_complete, registry>>

\* The transfer completes: the file is on disk and the host calls
\* download_finished_notification(user, virtual_path, real_path).
TransferFinish(i) ==
    /\ Running(i)
    /\ transfers[i].offset > 0
    /\ transfers' = [transfers EXCEPT ![i].status = "Finished"]
    /\ disk' = [disk EXCEPT ![i] = "ondisk"]
    /\ dfn_pc' = [dfn_pc EXCEPT ![i] = "start"]
    /\ UNCHANGED <<now, pending, active, search_info, active_downloads,
                   processed, enqueued, seen, album_complete, registry>>

\* The transfer fails on the peer's side: the host gives it a terminal
\* status and keeps it in the queue.
PeerFailures == {"USER_LOGGED_OFF", "CONNECTION_TIMEOUT"}

TransferFail(i) ==
    /\ Running(i)
    /\ \E st \in PeerFailures : transfers' = [transfers EXCEPT ![i].status = st]
    /\ UNCHANGED <<now, pending, active, search_info, active_downloads,
                   dfn_pc, disk, processed, enqueued, seen, album_complete, registry>>

\* _monitor_download_progress, one pass over the transfers: the cascade
\* flag is set when a tracked, unfinished transfer shows progress.
Sampled(i) ==
    /\ transfers[i].inqueue
    /\ transfers[i].status \notin {"Finished", "Paused", "Filtered"}
    /\ Key(transfers[i].user, transfers[i].file) \in active_downloads
    /\ transfers[i].offset > 0

MonitorDownloadProgress ==
    /\ active
    /\ search_info.cascade_mode
    /\ ~search_info.cascade_head1_started
    /\ \E i \in 1..Len(transfers) : Sampled(i)
    /\ search_info' = [search_info EXCEPT !.cascade_head1_started = TRUE]
    /\ UNCHANGED <<now, pending, active, active_downloads, transfers,
                   dfn_pc, disk, processed, enqueued, seen, album_complete, registry>>

-----------------------------------------------------------------------------
(* download_finished_notification for transfer i, block by block *)

TransferKey(i) == Key(transfers[i].user, transfers[i].file)

\* Index of the cascade head registered with this key, or -1.
HeadIndexOf(heads, k) ==
    LET hits == {j \in 1..Len(heads) : Key(heads[j].user, heads[j].file) = k}
    IN IF hits = {} THEN -1
       ELSE heads[CHOOSE j \in hits : \A l \in hits : j <= l].index

\* The winner check of the cascade block: has another head claimed victory?
AlreadyWon(si) == si.cascade_winner # 0

\* Tracked? session registered? in cascade mode, already won?
DfnCheck(i) ==
    /\ dfn_pc[i] = "start"
    /\ IF TransferKey(i) \notin active_downloads \/ ~active
       THEN /\ dfn_pc' = [dfn_pc EXCEPT ![i] = "done"]
            /\ UNCHANGED <<active_downloads, disk>>
       ELSE IF search_info.cascade_mode
            THEN IF AlreadyWon(search_info)
                 THEN /\ active_downloads' = active_downloads \ {TransferKey(i)}
                      /\ disk' = [disk EXCEPT ![i] = "deleted"]
                      /\ dfn_pc' = [dfn_pc EXCEPT ![i] = "done"]
                 ELSE /\ dfn_pc' = [dfn_pc EXCEPT ![i] = "claim"]
                      /\ UNCHANGED <<active_downloads, disk>>
            ELSE /\ dfn_pc' = [dfn_pc EXCEPT ![i] = "cleanup"]
                 /\ UNCHANGED <<active_downloads, disk>>
    /\ UNCHANGED <<now, pending, active, search_info, transfers,
                   processed, enqueued, seen, album_complete, registry>>

\* The value written to cascade_winner.
ClaimedWinner(si, k) == HeadIndexOf(si.cascade_heads, k) + 1

\* The head is marked as the winner.
DfnClaim(i) ==
    /\ dfn_pc[i] = "claim"
    /\ search_info' = [search_info EXCEPT
                          !.cascade_winner = ClaimedWinner(search_info, TransferKey(i))]
    /\ dfn_pc' = [dfn_pc EXCEPT ![i] = "cleanup"]
    /\ UNCHANGED <<now, pending, active, active_downloads, transfers,
                   disk, processed, enqueued, seen, album_complete, registry>>

\* The heads other than the winner that are still tracked are aborted.
RECURSIVE AbortLosers(_, _, _)
AbortLosers(w, heads, win) ==
    IF heads = <<>> THEN w
    ELSE LET h == Head(heads)
             w1 == IF h.index # win /\ Key(h.user, h.file) \in w.ad
                   THEN AbortTransferByPath(w, h.file, h.user, TRUE)
                   ELSE w
         IN AbortLosers(w1, Tail(heads), win)

\* The candidates other than the current attempt, as heads to abort.
CandidateHeads(cands) ==
    [j \in 1..Len(cands) |-> [index |-> j - 1, user |-> cands[j].user,
                              file |-> cands[j].file]]

\* What the cascade cleanup leaves in the session.
ClearCascade(si) ==
    [si EXCEPT !.cascade_mode = FALSE, !.cascade_heads = <<>>, !.cascade_winner = 0]

\* The transfer leaves the tracking; the other heads are aborted and the
\* cascade state is cleared.
CompletionCleanup(w, k) ==
    LET w0 == [w EXCEPT !.ad = @ \ {k}]
    IN IF w0.si.cascade_mode
       THEN LET w1 == AbortLosers(w0, w0.si.cascade_heads,
                                  HeadIndexOf(w0.si.cascade_heads, k))
            IN [w1 EXCEPT !.si = ClearCascade(@)]
       ELSE IF Len(w0.si.download_candidates) > 1
       THEN AbortLosers(w0, CandidateHeads(w0.si.download_candidates),
                        w0.si.current_attempt)
       ELSE w0

DfnCleanup(i) ==
    /\ dfn_pc[i] = "cleanup"
    /\ LET w == CompletionCleanup(World, TransferKey(i))
       IN SetWorld([w EXCEPT !.pcs[i] = "handoff"])
    /\ UNCHANGED <<now, pending, processed, seen, registry>>

\* _handle_track_completion: the file goes to post-processing in a new
\* thread and the session leaves the registry.
DfnHandoff(i) ==
    /\ dfn_pc[i] = "handoff"
    /\ processed' = processed \cup {i}
    /\ active' = FALSE
    /\ dfn_pc' = [dfn_pc EXCEPT ![i] = "done"]
    /\ UNCHANGED <<now, pending, search_info, active_downloads,
                   transfers, disk, enqueued, seen, album_complete, registry>>

-----------------------------------------------------------------------------
(* Album sessions: the matcher.  A file name is the sequence of the words  *)
(* and punctuation marks of its lower-cased base name; its extension is    *)
(* kept apart.                                                             *)

Punctuation == {"-", "(", ")", "[", "]", "_", "."}

Years == {"2013", "2015"}

\* suffix_pattern: does a recognised release/edition suffix start at word q?
SuffixAt(t, q) ==
    LET w1 == IF q <= Len(t) THEN t[q] ELSE ""
        w2 == IF q + 1 <= Len(t) THEN t[q + 1] ELSE ""
        w3 == IF q + 2 <= Len(t) THEN t[q + 2] ELSE ""
    IN \/ w1 \in Years /\ w2 \in {"remaster", "remastered", "edition"}
       \/ w1 \in {"remaster", "remastered"}
       \/ /\ w1 \in {"deluxe", "special", "limited", "expanded", "collectors"}
          /\ w2 \in {"edition", "version"}
       \/ /\ w1 \in {"live", "acoustic", "radio", "single", "album"}
          /\ w2 \in {"version", "edit", "mix"}
       \/ w1 = "bonus" /\ w2 = "track" /\ w3 = "version"

\* re.sub(suffix_pattern, '', text): the text is cut at the first opening
\* mark that a recognised suffix follows.
StripSuffix(t) ==
    LET cuts == {q \in 1..Len(t) : t[q] \in {"-", "(", "["} /\ SuffixAt(t, q + 1)}
    IN IF cuts = {} THEN t
       ELSE SubSeq(t, 1, (CHOOSE q \in cuts : \A r \in cuts : q <= r) - 1)

IsWord(w) == w \notin Punctuation

\* normalize_for_matching(text)
NormalizeForMatching(t) == SelectSeq(StripSuffix(t), IsWord)

\* str.find on normalised texts: first position of the words of sub in text
\* (0: not found).
FindWords(text, sub) ==
    LET at == {q \in 1..(Len(text) - Len(sub) + 1) :
                  SubSeq(text, q, q + Len(sub) - 1) = sub}
    IN IF at = {} THEN 0 ELSE CHOOSE q \in at : \A r \in at : q <= r

Words(t) == {t[q] : q \in 1..Len(t)}

\* Number of characters of the words joined by single spaces.
RECURSIVE CharLen(_)
CharLen(t) ==
    IF t = <<>> THEN 0
    ELSE Len(Head(t)) + (IF Len(t) > 1 THEN 1 ELSE 0) + CharLen(Tail(t))

VariantIndicators ==
    {"remix", "mix", "rmx", "edit", "version", "feat", "ft", "featuring",
     "live", "acoustic", "instrumental", "cover", "karaoke", "radio",
     "extended", "club", "dub", "vip", "remaster", "remastered", "deluxe",
     "bonus", "explicit", "clean", "original", "alternate", "demo"}

\* The spellings of a track number that the number patterns accept.
TrackNumberWords(n) ==
    IF n = 1 THEN {"1", "01"} ELSE IF n = 2 THEN {"2", "02"} ELSE {}

TrackNameScore == 50
ArtistScore == 30
TrackNumberScore == 20
TrailingCap == 50
TrailingPerChar == 2
VariantPenalty == 30
MatchThreshold == 30

\* The trailing penalty of a file whose name goes on after the track name.
TrailingPenalty(after) ==
    IF after = <<>> THEN 0
    ELSE Min(TrailingCap, CharLen(after) * TrailingPerChar)
         + (IF Words(after) \cap VariantIndicators # {} THEN VariantPenalty ELSE 0)

\* The match score of a file with normalised name "name" for a track with
\* normalised name "track", found in the name at pos (0: not found).
ScoreAt(name, track, artist, pos, numbered) ==
    (IF pos # 0 THEN TrackNameScore
     ELSE (Cardinality(Words(track) \cap Words(name)) * TrackNameScore)
              \div Cardinality(Words(track)))
    + (IF FindWords(name, artist) # 0 THEN ArtistScore ELSE 0)
    + (IF numbered THEN TrackNumberScore ELSE 0)
    - (IF pos # 0 THEN TrailingPenalty(SubSeq(name, pos + Len(track), Len(name)))
       ELSE 0)

\* The match score of one file of the folder for one expected track.
MatchScore(track_info, file) ==
    The({ScoreAt(name, track, NormalizeForMatching(track_info.artist), pos,
                 Words(file.name) \cap TrackNumberWords(track_info.track_number) # {}) :
            name \in {NormalizeForMatching(file.name)},
            track \in {NormalizeForMatching(track_info.track)},
            pos \in {FindWords(NormalizeForMatching(file.name),
                               NormalizeForMatching(track_info.track))}})

\* The loop over the folder's files: the first file with the highest
\* score above 0 is kept.
RECURSIVE BestMatch(_, _, _, _)
BestMatch(track_info, files, best, best_score) ==
    IF files = <<>> THEN [file |-> best, score |-> best_score]
    ELSE The({IF Head(files).ext = "mp3" /\ sc > best_score
              THEN BestMatch(track_info, Tail(files), <<Head(files)>>, sc)
              ELSE BestMatch(track_info, Tail(files), best, best_score) :
                 sc \in {MatchScore(track_info, Head(files))}})

\* _match_album_tracks(search_info, best_folder)
RECURSIVE MatchAlbumTracks(_, _)
MatchAlbumTracks(tracks, folder) ==
    IF tracks = <<>> THEN <<>>
    ELSE The({(IF m.file # <<>> /\ m.score > MatchThreshold
               THEN <<[track_info |-> Head(tracks), file_path |-> m.file[1],
                       user |-> folder.user]>>
               ELSE <<>>) \o MatchAlbumTracks(Tail(tracks), folder) :
                 m \in {BestMatch(Head(tracks), folder.tracks_found, <<>>, 0)}})

-----------------------------------------------------------------------------
(* Album sessions: folder candidates.  A shared file is a record of its     *)
(* folder, the words of its base name and its extension; a peer's response  *)
(* is the sequence of its folders, each with its files and the score that   *)
(* _score_album_folder gives it.                                            *)

File(folder, name) == [folder |-> folder, name |-> name, ext |-> "mp3"]

Track1 == [track |-> <<"hotel", "california">>, artist |-> <<"eagles">>,
           track_number |-> 1]

Track2 == [track |-> <<"new", "kid", "in", "town">>, artist |-> <<"eagles">>,
           track_number |-> 2]

AlbumTracks == <<Track1, Track2>>

CleanName(t) ==
    <<IF t.track_number = 1 THEN "01" ELSE "02">> \o t.artist \o <<"-">> \o t.track

\* A folder that holds one cleanly named file per track of the album.
CleanListing(folder) ==
    [i \in 1..Len(AlbumTracks) |-> File(folder, CleanName(AlbumTracks[i]))]

AlbumMinScore == 50

AlbumScores == {40, 60, 120, 160}

Peers == 1..2

Folders == 1..3

\* The album session that _trigger_album_search registers at time t.
NewAlbumSession(t) ==
    [type |-> "album",
     tracks |-> AlbumTracks,
     timestamp |-> t,
     folder_candidates |-> <<>>,
     best_folder |-> <<>>,
     tracks_to_download |-> <<>>,
     downloaded_tracks |-> <<>>,
     current_track_index |-> 0,
     download_started_at |-> None,
     result_count |-> 0,
     tried_folders |-> {},
     completed_track_count |-> 0]

IsAlbum(si) == "type" \in DOMAIN si /\ si.type = "album"

\* The stored candidate of this (peer, folder path) pair (0: none).
ExistingCandidate(fc, user, folder_path) ==
    LET hits == {i \in 1..Len(fc) : fc[i].folder_path = folder_path /\ fc[i].user = user}
    IN IF hits = {} THEN 0 ELSE CHOOSE i \in hits : \A j \in hits : i <= j

\* Variant: the stored candidate of the pair takes every new score.
ScoreFolder_Overwrite(fc, user, e) ==
    IF e.score < AlbumMinScore THEN fc
    ELSE LET i == ExistingCandidate(fc, user, e.folder_path)
         IN IF i # 0
            THEN [fc EXCEPT ![i].score = e.score, ![i].tracks_found = e.files]
            ELSE Append(fc, [user |-> user, folder_path |-> e.folder_path,
                             tracks_found |-> e.files, score |-> e.score])

\* One folder of the response: dropped below 50, else the stored candidate
\* of the pair is raised or a new candidate is appended.
ScoreFolder(fc, user, e) ==
    IF e.score < AlbumMinScore THEN fc
    ELSE LET i == ExistingCandidate(fc, user, e.folder_path)
         IN IF i # 0
            THEN IF e.score > fc[i].score
                 THEN [fc EXCEPT ![i].score = e.score, ![i].tracks_found = e.files]
                 ELSE fc
            ELSE Append(fc, [user |-> user, folder_path |-> e.folder_path,
                             tracks_found |-> e.files, score |-> e.score])

RECURSIVE ScoreFolders(_, _, _)
ScoreFolders(fc, user, batch) ==
    IF batch = <<>> THEN fc
    ELSE ScoreFolders(ScoreFolder(fc, user, Head(batch)), user, Tail(batch))

RECURSIVE FileCount(_)
FileCount(batch) ==
    IF batch = <<>> THEN 0 ELSE Len(Head(batch).files) + FileCount(Tail(batch))

\* _process_album_search_results(token, search_info, username, file_list)
ProcessAlbumSearchResults(si, user, batch) ==
    [si EXCEPT !.folder_candidates = Take(SortDesc(ScoreFolders(@, user, batch)), TopK),
               !.result_count = @ + FileCount(batch)]

\* The responses of one peer: one or two of its folders, each once.
Batches ==
    LET E == [folder_path : Folders, score : AlbumScores \ {60}]
        Mk(e) == [folder_path |-> e.folder_path, score |-> e.score,
                  files |-> CleanListing(e.folder_path)]
    IN {<<Mk(e)>> : e \in E}
       \cup {<<Mk(p[1]), Mk(p[2])>> :
                p \in {q \in E \X E : q[1].folder_path # q[2].folder_path}}

Pairs == Peers \X Folders

\* The best score of 50 or more seen for each (peer, folder path) pair
\* (0: none), and what the last later score of the pair did to it.
RECURSIVE SeenAfter(_, _, _)
SeenAfter(sn, user, batch) ==
    IF batch = <<>> THEN sn
    ELSE LET e == Head(batch)
             k == <<user, e.folder_path>>
             s1 == IF e.score < AlbumMinScore THEN sn
                   ELSE IF sn[k].best = 0
                        THEN [sn EXCEPT ![k].best = e.score]
                        ELSE IF e.score > sn[k].best
                             THEN [sn EXCEPT ![k] = [best |-> e.score, again |-> "raised"]]
                             ELSE [sn EXCEPT ![k].again = "kept"]
         IN SeenAfter(s1, user, Tail(batch))

MaxSeen == 7

MaxAlbumFiles == 10

\* _on_file_search_response for a track session: one more file of a peer;
\* peers are numbered in the order of their responses.
ReceiveTrackResults ==
    /\ active
    /\ ~IsAlbum(search_info)
    /\ Len(seen) < MaxSeen
    /\ \E sc \in Scores :
          LET u == Len(seen) + 1
          IN /\ search_info' = ProcessTrackSearchResults(search_info, u, sc)
             /\ seen' = Append(seen, [file |-> FileOf(u), user |-> u, score |-> sc])
    /\ UNCHANGED <<now, pending, active, active_downloads, transfers,
                   dfn_pc, disk, processed, enqueued, album_complete, registry>>

\* _on_file_search_response for an album session: the response of a peer.
ReceiveAlbumResults ==
    /\ active
    /\ IsAlbum(search_info)
    /\ search_info.result_count < MaxAlbumFiles
    /\ \E user \in Peers, batch \in Batches :
          /\ search_info' = ProcessAlbumSearchResults(search_info, user, batch)
          /\ seen' = SeenAfter(seen, user, batch)
    /\ UNCHANGED <<now, pending, active, active_downloads, transfers,
                   dfn_pc, disk, processed, enqueued, album_complete, registry>>

InitRank ==
    /\ now = 0
    /\ pending = 0
    /\ active = TRUE
    /\ \/ search_info = [NoSession EXCEPT !.timestamp = 0] /\ seen = <<>>
       \/ search_info = NewAlbumSession(0) /\ seen = [k \in Pairs |-> [best |-> 0, again |-> "no"]]
    /\ active_downloads = {}
    /\ transfers = <<>>
    /\ dfn_pc = <<>>
    /\ disk = <<>>
    /\ processed = {}
    /\ enqueued = <<>>
    /\ album_complete = FALSE /\ NoRegistry

-----------------------------------------------------------------------------
(* Album sessions: download, track by track *)

AlbumMinCollect == 20
AlbumMaxCollect == 40
AlbumGoodScore == 150
AlbumViableScore == 100
FirstTrackTimeout == 15
TrackStallTimeout == 90
AlbumTimeout == 1800

\* A virtual path used as a key of active_downloads: the keys are
\* username + virtual_path, so a bare path is the key of the empty user
\* name, which no peer has.
NoUser == 0

BareKey(file) == Key(NoUser, file)

\* _finalize_album_download(token, search_info)
FinalizeAlbumDownload(w) == [w EXCEPT !.act = FALSE, !.fin = TRUE]

\* _download_next_album_track(token, search_info), t = time.time()
DownloadNextAlbumTrack(w0, t) ==
    The({IF w.si.current_track_index >= Len(w.si.tracks_to_download)
         THEN FinalizeAlbumDownload(w)
         ELSE The({[EnqueueDownload(w, [user |-> trk.user, file |-> trk.file_path])
                    EXCEPT
                       !.ad = @ \cup {Key(trk.user, trk.file_path)},
                       !.si.download_started_at = t,
                       !.log = Append(@, [user |-> trk.user, file |-> trk.file_path,
                                          index |-> w.si.current_track_index,
                                          at |-> t])] :
                     trk \in {w.si.tracks_to_download[w.si.current_track_index + 1]}}) :
            w \in {w0}})

\* _start_album_download(token, search_info, best_folder)
StartAlbumDownload(w0, folder, t) ==
    The({IF m = <<>> THEN [w EXCEPT !.si.best_folder = <<folder>>, !.act = FALSE]
         ELSE DownloadNextAlbumTrack([w EXCEPT !.si.best_folder = <<folder>>,
                                               !.si.tracks_to_download = m,
                                               !.si.current_track_index = 0], t) :
            w \in {w0}, m \in {MatchAlbumTracks(w0.si.tracks, folder)}})

\* Variant: the album dwell ends 10 s early.
AlbumDwellOver_Early(elapsed) == elapsed >= AlbumMinCollect - 10

\* The minimum collection time of an album session is over.
AlbumDwellOver(elapsed) == elapsed >= AlbumMinCollect

\* The collection time of an album session has run out.
AlbumCollectionTimedOut(elapsed) == elapsed > AlbumMaxCollect

\* _check_album_download_ready(token, search_info, current_time)
CheckAlbumDownloadReady(w, t) ==
    LET si == w.si
        elapsed == t - si.timestamp
        fc == si.folder_candidates
    IN IF si.best_folder # <<>> THEN w
       ELSE IF ~AlbumDwellOver(elapsed) THEN w
       ELSE IF fc # <<>> /\ fc[1].score > AlbumGoodScore /\ AlbumDwellOver(elapsed)
            THEN StartAlbumDownload(w, fc[1], t)
       ELSE IF AlbumCollectionTimedOut(elapsed)
            THEN IF fc # <<>> /\ fc[1].score > AlbumViableScore
                 THEN StartAlbumDownload(w, fc[1], t)
                 ELSE [w EXCEPT !.act = FALSE]
       ELSE w

\* Has the first transfer of the queue with this path received bytes?
StartedTransferring(tr, file) ==
    LET i == FirstByPath(tr, file) IN i # 0 /\ tr[i].offset > 0

RECURSIVE ClearAll(_, _)
ClearAll(w, I) ==
    IF I = {} THEN w
    ELSE LET i == CHOOSE i \in I : TRUE IN ClearAll(ClearDownload(w, i), I \ {i})

\* The first candidate whose folder path has not been tried (<<>>: none).
NextFolder(fc, tried) ==
    LET ok == {i \in 1..Len(fc) : fc[i].folder_path \notin tried}
    IN IF ok = {} THEN <<>> ELSE <<fc[CHOOSE i \in ok : \A j \in ok : i <= j]>>

\* _monitor_album_download: the first track has no bytes after 15 s; the
\* folder is given up for the next candidate.  The queued transfers of its
\* tracks are cleared, their paths are taken out of the tracking, the
\* folder is marked tried and the next candidate is matched and started.
FolderBailOut(w0, t) ==
    The({IF next = <<>> THEN [w EXCEPT !.si.tried_folders = tried, !.act = FALSE]
         ELSE The({IF m = <<>>
                   THEN [w4 EXCEPT !.act = FALSE]
                   ELSE DownloadNextAlbumTrack(
                           [w4 EXCEPT !.si.tracks_to_download = m], t) :
                      m \in {MatchAlbumTracks(w.si.tracks, next[1])},
                      w4 \in {[w EXCEPT !.si.tried_folders = tried,
                                        !.si.best_folder = next,
                                        !.si.current_track_index = 0,
                                        !.si.download_started_at = None,
                                        !.si.downloaded_tracks = <<>>]}}) :
            w \in {[ClearAll(w0, {FirstByPath(w0.tr, w0.si.tracks_to_download[k].file_path) :
                                     k \in 1..Len(w0.si.tracks_to_download)} \ {0})
                    EXCEPT !.ad = @ \ {BareKey(w0.si.tracks_to_download[k].file_path) :
                                          k \in 1..Len(w0.si.tracks_to_download)}]},
            tried \in {IF w0.si.best_folder # <<>>
                       THEN w0.si.tried_folders \cup {w0.si.best_folder[1].folder_path}
                       ELSE w0.si.tried_folders},
            next \in {NextFolder(w0.si.folder_candidates,
                                 IF w0.si.best_folder # <<>>
                                 THEN w0.si.tried_folders
                                         \cup {w0.si.best_folder[1].folder_path}
                                 ELSE w0.si.tried_folders)}})

\* _monitor_album_download: the album is older than 30 minutes.
AlbumCeiling(w, t) ==
    IF w.act /\ t - w.si.timestamp > AlbumTimeout
    THEN IF w.si.downloaded_tracks # <<>>
         THEN FinalizeAlbumDownload(w)
         ELSE [w EXCEPT !.act = FALSE]
    ELSE w

\* The next track is taken up.
SkipTrack(w, t) ==
    DownloadNextAlbumTrack([w EXCEPT !.si.current_track_index = @ + 1,
                                     !.si.download_started_at = None], t)

\* _monitor_album_download: the current track was enqueued more than 90 s
\* ago.  It is skipped when its path is not a key of the tracking; else it
\* is skipped, its transfer cleared and its path untracked when the first
\* transfer with its path is gone or has no bytes.
TrackStall(w0, t) ==
    The({IF BareKey(file) \notin w.ad THEN SkipTrack(w, t)
         ELSE IF i = 0
              THEN AlbumCeiling(SkipTrack([w EXCEPT !.ad = @ \ {BareKey(file)}], t), t)
         ELSE IF w.tr[i].offset = 0
              THEN AlbumCeiling(SkipTrack([ClearDownload(w, i) EXCEPT
                                              !.ad = @ \ {BareKey(file)}], t), t)
         ELSE AlbumCeiling(w, t) :
            w \in {w0},
            file \in {w0.si.tracks_to_download[w0.si.current_track_index + 1].file_path},
            i \in {FirstByPath(w0.tr,
                     w0.si.tracks_to_download[w0.si.current_track_index + 1].file_path)}})

\* _monitor_album_download(token, search_info, current_time)
MonitorAlbumDownload(w, t) ==
    IF w.si.download_started_at = None THEN w
    ELSE IF w.si.current_track_index >= Len(w.si.tracks_to_download) THEN w
    ELSE IF /\ w.si.current_track_index = 0
            /\ t - w.si.download_started_at > FirstTrackTimeout
            /\ ~StartedTransferring(w.tr, w.si.tracks_to_download[1].file_path)
         THEN FolderBailOut(w, t)
    ELSE IF t - w.si.download_started_at > TrackStallTimeout THEN TrackStall(w, t)
    ELSE AlbumCeiling(w, t)

MaxAlbumTime == 150

\* _poll_queue with an album session: _check_and_download_ready_searches,
\* then _monitor_downloads if the session is still there, then the sleep.
PollAlbumEvery(step, limit) ==
    /\ pending = 0
    /\ active
    /\ IsAlbum(search_info)
    /\ now <= limit
    /\ \E w1 \in {CheckAlbumDownloadReady(World, now)} :
          \E w2 \in {IF w1.act THEN MonitorAlbumDownload(w1, now) ELSE w1} :
             SetWorld(w2)
    /\ now' = now + step
    /\ UNCHANGED <<pending, processed, seen, registry>>

PollAlbumUntil(limit) == PollAlbumEvery(TimeStep, limit)

PollAlbum == PollAlbumUntil(MaxAlbumTime)

\* _poll_queue: the pending album search is fetched and _trigger_album_search
\* registers it.
TriggerAlbumSearch ==
    /\ pending = 1
    /\ pending' = 0
    /\ active' = TRUE
    /\ search_info' = NewAlbumSession(now)
    /\ UNCHANGED <<now, active_downloads, transfers, dfn_pc, disk, processed,
                   enqueued, seen, album_complete, registry>>

MaxFolderResults == 4

\* _on_file_search_response for an album session: one folder of a peer.
FolderResponse(max, scores) ==
    /\ active
    /\ IsAlbum(search_info)
    /\ search_info.result_count < max
    /\ \E user \in Peers, folder \in Folders, sc \in scores :
          search_info' = ProcessAlbumSearchResults(search_info, user,
                            <<[folder_path |-> folder, score |-> sc,
                               files |-> CleanListing(folder)]>>)
    /\ UNCHANGED <<now, pending, active, active_downloads, transfers,
                   dfn_pc, disk, processed, enqueued, seen, album_complete, registry>>

AlbumResponse == FolderResponse(MaxFolderResults, AlbumScores)

\* _handle_album_track_completion(token, search_info, virtual_path, real_path)
\* for the finished transfer i, t = time.time()
HandleAlbumTrackCompletion(w0, t) ==
    The({DownloadNextAlbumTrack(
            [w EXCEPT !.si.completed_track_count =
                         IF w.si.current_track_index < Len(w.si.tracks_to_download)
                         THEN @ + 1 ELSE @,
                      !.si.current_track_index = @ + 1], t) :
            w \in {w0}})

\* download_finished_notification(user, virtual_path, real_path) for the
\* finished transfer i of an album session.
AlbumDfn(i) ==
    /\ dfn_pc[i] = "start"
    /\ IsAlbum(search_info)
    /\ IF TransferKey(i) \notin active_downloads \/ ~active
       THEN /\ dfn_pc' = [dfn_pc EXCEPT ![i] = "done"]
            /\ UNCHANGED <<search_info, active_downloads, transfers, active,
                           enqueued, disk, album_complete, processed, registry>>
       ELSE /\ \E w1 \in {HandleAlbumTrackCompletion(
                             [World EXCEPT !.ad = @ \ {TransferKey(i)}], now)} :
                  SetWorld([w1 EXCEPT !.pcs[i] = "done"])
            /\ processed' =
                  IF search_info.current_track_index < Len(search_info.tracks_to_download)
                  THEN processed \cup {i} ELSE processed
    /\ UNCHANGED <<now, pending, seen, registry>>

InitAlbum ==
    /\ now = 0
    /\ pending = 1
    /\ active = FALSE
    /\ search_info = NewAlbumSession(None)
    /\ active_downloads = {}
    /\ transfers = <<>>
    /\ dfn_pc = <<>>
    /\ disk = <<>>
    /\ processed = {}
    /\ enqueued = <<>>
    /\ seen = <<>>
    /\ album_complete = FALSE /\ NoRegistry

-----------------------------------------------------------------------------
(* A long album near the 30 minute ceiling *)

LongAlbumLen == 20

LongTracks ==
    [n \in 1..LongAlbumLen |->
        [track |-> <<"song", ToString(n)>>, artist |-> <<"eagles">>,
         track_number |-> n]]

\* The folder of peer 1 that holds one file per track of the long album.
LongFolder ==
    [user |-> 1, folder_path |-> 1, score |-> 160,
     tracks_found |-> [n \in 1..LongAlbumLen |->
                          File(1, <<ToString(n), "eagles", "-", "song", ToString(n)>>)]]

\* The track indexes and the times at which the model takes the album up.
LateIndexes == {18, 19}

LateTimes == {1760, 1770, 1780, 1790, 1800}

MaxLateTime == 1830

\* The session of the long album, registered at 0, after its first k
\* tracks have completed, each within 90 s of its enqueue (the finished
\* transfers have left the queue), and track k + 1 has just been enqueued.
InitLate ==
    \E k \in LateIndexes, t0 \in LateTimes :
       LET ttd == MatchAlbumTracks(LongTracks, LongFolder)
           trk == ttd[k + 1]
       IN /\ now = t0
          /\ pending = 0
          /\ active = TRUE
          /\ search_info = [NewAlbumSession(0) EXCEPT
                               !.tracks = LongTracks,
                               !.folder_candidates = <<LongFolder>>,
                               !.best_folder = <<LongFolder>>,
                               !.tracks_to_download = ttd,
                               !.current_track_index = k,
                               !.completed_track_count = k,
                               !.download_started_at = t0,
                               !.result_count = LongAlbumLen]
          /\ active_downloads = {Key(trk.user, trk.file_path)}
          /\ transfers = <<[user |-> trk.user, file |-> trk.file_path,
                            status |-> "Queued", offset |-> 0, inqueue |-> TRUE]>>
          /\ dfn_pc = <<"idle">>
          /\ disk = <<"none">>
          /\ processed = {}
          /\ enqueued = <<[user |-> trk.user, file |-> trk.file_path,
                           index |-> k, at |-> t0]>>
          /\ seen = <<>>
          /\ album_complete = FALSE /\ NoRegistry

PollAlbumLate == PollAlbumUntil(MaxLateTime)

-----------------------------------------------------------------------------
(* The matcher on the listings of one folder *)

\* The files a peer may share in the folder: the two tracks under clean
\* names, the first track with a suffix after its name, a lossless copy, and
\* the second track numbered as the first (the peer's own numbering).
MatchFiles ==
    {File(1, CleanName(Track1)),
     File(1, <<"01">> \o Tail(CleanName(Track2))),
     File(1, CleanName(Track1) \o <<"(", "2013", "remaster", ")">>),
     File(1, CleanName(Track1) \o <<"-", "live", "version">>),
     File(1, CleanName(Track1) \o <<"[", "deluxe", "edition", "]">>),
     File(1, CleanName(Track1) \o <<"(", "demo", ")">>),
     File(1, CleanName(Track2)),
     [File(1, CleanName(Track1)) EXCEPT !.ext = "flac"]}

MaxListing == 3

\* The listings of the folder: up to MaxListing of the files, in any order.
Listings ==
    {l \in UNION {[1..n -> MatchFiles] : n \in 1..MaxListing} :
        \A i, j \in 1..Len(l) : l[i] = l[j] => i = j}

\* An album session 20 s after its registration, with the folder of peer 1
\* as its only candidate.
InitMatch ==
    /\ now = AlbumMinCollect
    /\ pending = 0
    /\ active = TRUE
    /\ \E l \in Listings :
          search_info = [NewAlbumSession(0) EXCEPT
                            !.folder_candidates =
                                <<[user |-> 1, folder_path |-> 1,
                                   tracks_found |-> l, score |-> 160]>>,
                            !.result_count = Len(l)]
    /\ active_downloads = {}
    /\ transfers = <<>>
    /\ dfn_pc = <<>>
    /\ disk = <<>>
    /\ processed = {}
    /\ enqueued = <<>>
    /\ seen = <<>>
    /\ album_complete = FALSE /\ NoRegistry

\* The tick that chooses the folder and matches its files.
PollAlbumMatch == PollAlbumUntil(AlbumMinCollect)

-----------------------------------------------------------------------------
(* Several sessions and exceptions.  An exception is raised while the       *)
(* session of one token is processed: before the first or after the last   *)
(* effect of the body of a loop of the poll iteration or of the result     *)
(* handler, or inside _start_album_download.                               *)

Tokens == 1..2

PhaseNames == {"ready", "cascade", "monitor"}

NoFault == [token |-> 0, phase |-> "none", point |-> "none"]

Faults ==
    {NoFault}
    \cup [token : Tokens, phase : PhaseNames, point : {"before", "after"}]
    \cup [token : Tokens, phase : {"ready"}, point : {"start"}]

HandlerAbandon == 60

MaxFaultTime == 70

MaxFaultResults == 2

FaultScores == {40, 140}

Without(reg, k) == [j \in DOMAIN reg \ {k} |-> reg[j]]

\* The tokens of the registry in the order of list(self.active_searches.items()).
RECURSIVE InOrder(_)
InOrder(K) ==
    IF K = {} THEN <<>>
    ELSE The({<<k>> \o InOrder(K \ {k}) : k \in {j \in K : \A i \in K : j <= i}})

\* What a poll iteration works on, and the record of what it did.
Shared ==
    [reg |-> active_searches, ad |-> active_downloads, tr |-> transfers,
     log |-> enqueued, pcs |-> dfn_pc, dsk |-> disk, fin |-> album_complete,
     snapshot |-> {}, visited |-> {}, raised |-> {}, abandoned |-> {},
     escaped |-> {}]

\* The world of the helpers when they are called for one session.
SessionWorld(r, si) ==
    [si |-> si, act |-> TRUE, ad |-> r.ad, tr |-> r.tr, log |-> r.log,
     pcs |-> r.pcs, dsk |-> r.dsk, fin |-> r.fin]

Store(r, k, w) ==
    [r EXCEPT !.reg = IF ~w.act THEN Without(@, k)
                      ELSE IF k \in DOMAIN @ THEN [@ EXCEPT ![k] = w.si] ELSE @,
              !.ad = w.ad, !.tr = w.tr, !.log = w.log, !.pcs = w.pcs,
              !.dsk = w.dsk, !.fin = w.fin]

\* The body of the loop of one phase for one session.
SessionBody(w, p, t) ==
    IF p = "ready"
    THEN IF IsAlbum(w.si) THEN CheckAlbumDownloadReady(w, t)
         ELSE CheckTrackDownloadReady(w, t)
    ELSE IF p = "cascade"
    THEN IF IsAlbum(w.si) THEN w ELSE CheckCascadeSession(w, t)
    ELSE IF IsAlbum(w.si) THEN MonitorAlbumDownload(w, t)
         ELSE MonitorTrackSession(w, t)

\* Is the body of the phase inside the try block for this session?
InTry(si, p) == p = "cascade" => ~IsAlbum(si) /\ si.cascade_mode

\* Variant: the loops have no try block of their own.
SessionError_Propagate(r, k, si, p, t) == [r EXCEPT !.escaped = @ \cup {p}]

\* The except block of the loop of a phase, for the session of token k.
SessionError(r, k, si, p, t) ==
    IF p = "ready" /\ t - si.timestamp > HandlerAbandon
    THEN IF k \in DOMAIN r.reg
         THEN [r EXCEPT !.reg = Without(@, k), !.abandoned = @ \cup {k}]
         ELSE [r EXCEPT !.escaped = @ \cup {p}]
    ELSE r

\* _start_album_download when its try block raises: the session is removed.
StartAlbumDownloadRaises(w, folder) ==
    [w EXCEPT !.si.best_folder = <<folder>>, !.act = FALSE]

\* One turn of the loop of phase p, for token k, under the fault f.  The
\* removal of the session is the last statement of every body that removes
\* it (lines 1810, 1839, 1857, 3585), so nothing raises after it.
Visit(r0, k, p, t, f) ==
    The({IF ~(f.token = k /\ f.phase = p /\ InTry(w.si, p))
         THEN Store(r, k, body)
         ELSE IF f.point = "before"
         THEN SessionError([r EXCEPT !.raised = @ \cup {k}], k, w.si, p, t)
         ELSE IF f.point = "after" /\ ~body.act
         THEN Store(r, k, body)
         ELSE IF f.point = "after"
         THEN SessionError([Store(r, k, body) EXCEPT !.raised = @ \cup {k}],
                           k, body.si, p, t)
         ELSE IF IsAlbum(w.si) /\ body.si.best_folder # w.si.best_folder
         THEN [Store(r, k, StartAlbumDownloadRaises(w, body.si.best_folder[1]))
                  EXCEPT !.raised = @ \cup {k}, !.abandoned = @ \cup {k}]
         ELSE Store(r, k, body) :
            r \in {[r0 EXCEPT !.visited = @ \cup {<<p, k>>}]},
            w \in {SessionWorld(r0, r0.reg[k])},
            body \in {SessionBody(SessionWorld(r0, r0.reg[k]), p, t)}})

\* The loop of one phase over its snapshot of the registry; an exception
\* that leaves the loop ends it.
RECURSIVE PhaseLoop(_, _, _, _, _)
PhaseLoop(r, todo, p, t, f) ==
    IF todo = <<>> \/ p \in r.escaped THEN r
    ELSE The({PhaseLoop(r1, Tail(todo), p, t, f) :
                 r1 \in {IF Head(todo) \in DOMAIN r.reg
                         THEN Visit(r, Head(todo), p, t, f) ELSE r}})

\* _check_and_download_ready_searches, _check_cascade_launches and
\* _monitor_downloads over the registry
Phase(r, p, t, f) ==
    PhaseLoop([r EXCEPT !.snapshot = @ \cup {<<p, k>> : k \in DOMAIN r.reg}],
              InOrder(DOMAIN r.reg), p, t, f)

\* _poll_queue: a search is fetched and registered under the next token.
\* The two searches are of one kind, so that the files of the transfer queue
\* are of one kind.
TriggerSessions ==
    /\ pending > 0
    /\ pending' = pending - 1
    /\ \E si \in {[NoSession EXCEPT !.timestamp = now], NewAlbumSession(now)} :
          /\ \A k \in DOMAIN active_searches : IsAlbum(active_searches[k]) = IsAlbum(si)
          /\ enqueued # <<>> => ("at" \in DOMAIN enqueued[1]) = IsAlbum(si)
          /\ active_searches' =
             [k \in DOMAIN active_searches \cup {Cardinality(Tokens) + 1 - pending} |->
                 IF k \in DOMAIN active_searches THEN active_searches[k] ELSE si]
    /\ poll_log' = [kind |-> "trigger"]
    /\ UNCHANGED <<now, active, search_info, active_downloads, transfers, dfn_pc,
                   disk, processed, enqueued, seen, album_complete,
                   metadata_cache, last_cleanup_time>>

\* One iteration of _poll_queue over the registry, with at most one fault.
PollSessions ==
    /\ DOMAIN active_searches # {}
    /\ now <= MaxFaultTime
    /\ \E f \in Faults :
          /\ f = NoFault \/ f.token \in DOMAIN active_searches
          /\ \E r1 \in {Phase(Shared, "ready", now, f)} :
                \E r2 \in {Phase(r1, "cascade", now, f)} :
                   \E r3 \in {Phase(r2, "monitor", now, f)} :
                      /\ f = NoFault \/ r3.raised # {}
                      /\ active_searches' = r3.reg
                      /\ active_downloads' = r3.ad
                      /\ transfers' = r3.tr
                      /\ enqueued' = r3.log
                      /\ dfn_pc' = r3.pcs
                      /\ disk' = r3.dsk
                      /\ album_complete' = r3.fin
                      /\ poll_log' = [kind |-> "tick", snapshot |-> r3.snapshot,
                                      visited |-> r3.visited, raised |-> r3.raised,
                                      abandoned |-> r3.abandoned,
                                      escaped |-> r3.escaped]
    /\ now' = now + TimeStep
    /\ UNCHANGED <<pending, active, search_info, processed, seen,
                   metadata_cache, last_cleanup_time>>

\* The results that a peer may send for a session.
ResultsFor(si, k) ==
    IF IsAlbum(si)
    THEN {ProcessAlbumSearchResults(si, 1, <<[folder_path |-> 1, score |-> sc,
                                             files |-> CleanListing(1)]>>) :
             sc \in {120, 160}}
    ELSE {ProcessTrackSearchResults(si, si.result_count + 1 + 2 * (k - 1), sc) :
             sc \in FaultScores}

\* _on_file_search_response(msg) for the session of token k; the handler's
\* try block may raise before or after the results are processed.
SessionResponse ==
    /\ \E k \in DOMAIN active_searches :
          /\ active_searches[k].result_count < MaxFaultResults
          /\ \E si \in ResultsFor(active_searches[k], k), point \in {"none", "before", "after"} :
                /\ active_searches' =
                      [active_searches EXCEPT ![k] = IF point = "before" THEN @ ELSE si]
                /\ poll_log' = [kind |-> "response", token |-> k,
                                raised |-> IF point = "none" THEN {} ELSE {k}]
    /\ UNCHANGED <<now, pending, active, search_info, active_downloads, transfers,
                   dfn_pc, disk, processed, enqueued, seen, album_complete,
                   metadata_cache, last_cleanup_time>>

\* The plugin before its two searches are registered.
InitSessions ==
    /\ now = 0
    /\ pending = Cardinality(Tokens)
    /\ active = FALSE
    /\ search_info = NoSession
    /\ active_downloads = {}
    /\ transfers = <<>>
    /\ dfn_pc = <<>>
    /\ disk = <<>>
    /\ processed = {}
    /\ enqueued = <<>>
    /\ seen = <<>>
    /\ album_complete = FALSE
    /\ active_searches = <<>>
    /\ poll_log = [kind |-> "init"]
    /\ metadata_cache = <<>>
    /\ last_cleanup_time = 0

-----------------------------------------------------------------------------
(* The eviction sweep.  The sweep runs in the poll thread when a search is  *)
(* fetched; like the other steps of that thread it is taken as one step.   *)

SessionTTL == 600

CacheTTL == 600

CleanupInterval == 60

PrefetchTimeout == 30

\* self.metadata_cache_max_size, scaled down.
CacheMaxSize == 2

SweepStep == 60

MaxSweepTime == 660

MaxSweepSearches == 4

\* Variant: the cache is sorted oldest first.
RECURSIVE InsertNewest_Oldest(_, _)
InsertNewest_Oldest(sorted, e) ==
    IF sorted = <<>> THEN <<e>>
    ELSE IF Head(sorted).timestamp <= e.timestamp
    THEN <<Head(sorted)>> \o InsertNewest_Oldest(Tail(sorted), e)
    ELSE <<e>> \o sorted

\* sorted(..., key=timestamp, reverse=True) is stable: an entry goes behind
\* the entries that are as recent as it is.
RECURSIVE InsertNewest(_, _)
InsertNewest(sorted, e) ==
    IF sorted = <<>> THEN <<e>>
    ELSE IF Head(sorted).timestamp >= e.timestamp
    THEN <<Head(sorted)>> \o InsertNewest(Tail(sorted), e)
    ELSE <<e>> \o sorted

RECURSIVE NewestFirst(_)
NewestFirst(s) ==
    IF s = <<>> THEN <<>>
    ELSE InsertNewest(NewestFirst(SubSeq(s, 1, Len(s) - 1)), s[Len(s)])

\* The registry without its sessions registered more than ten minutes ago.
FreshSessions(reg, t) ==
    [k \in {j \in DOMAIN reg : ~(reg[j].timestamp < t - SessionTTL)} |-> reg[k]]

\* The cache without its expired entries, cut to its newest entries when it
\* is over its size limit.
FreshCache(cache, t) ==
    The({IF Len(fresh) > CacheMaxSize THEN Take(NewestFirst(fresh), CacheMaxSize)
         ELSE fresh :
            fresh \in {SelectSeq(cache, LAMBDA e : ~(e.timestamp < t - CacheTTL))}})

\* _cleanup_old_data
CleanupOldData ==
    IF now - last_cleanup_time < CleanupInterval
    THEN UNCHANGED <<metadata_cache, last_cleanup_time>>
    ELSE /\ last_cleanup_time' = now
         /\ metadata_cache' = FreshCache(metadata_cache, now)

\* The registry after _cleanup_old_data.
SweptSessions ==
    IF now - last_cleanup_time < CleanupInterval THEN active_searches
    ELSE FreshSessions(active_searches, now)

\* _poll_queue fetches an album search: _cleanup_old_data, then
\* _trigger_album_search registers the session under the next token.
FetchSearch ==
    /\ pending > 0
    /\ pending' = pending - 1
    /\ CleanupOldData
    /\ \E reg \in {SweptSessions}, token \in {MaxSweepSearches + 1 - pending} :
          active_searches' =
             [k \in DOMAIN reg \cup {token} |->
                 IF k = token THEN NewAlbumSession(now) ELSE reg[k]]
    /\ poll_log' =
          [kind |-> "fetch",
           ran |-> last_cleanup_time' # last_cleanup_time,
           stale |-> DOMAIN active_searches \ DOMAIN SweptSessions,
           trimmed |-> Len(SelectSeq(metadata_cache,
                                     LAMBDA e : ~(e.timestamp < now - CacheTTL)))
                          - Len(metadata_cache')]
    /\ UNCHANGED <<now, active, search_info, active_downloads, transfers, dfn_pc,
                   disk, processed, enqueued, seen, album_complete>>

\* prefetch_worker of _prefetch_album_metadata(token, ...): the album's
\* metadata is stored under the key of the token, once, while the album
\* download starts.
CachePut ==
    /\ \E k \in DOMAIN active_searches :
          /\ now - active_searches[k].timestamp <= AlbumMaxCollect + PrefetchTimeout
          /\ \A i \in 1..Len(metadata_cache) : metadata_cache[i].key # k
          /\ metadata_cache' = Append(metadata_cache, [key |-> k, timestamp |-> now])
    /\ poll_log' = [kind |-> "prefetch"]
    /\ UNCHANGED <<now, pending, active, search_info, active_downloads, transfers,
                   dfn_pc, disk, processed, enqueued, seen, album_complete,
                   active_searches, last_cleanup_time>>

\* Time passes.
ClockTick ==
    /\ now < MaxSweepTime
    /\ now' = now + SweepStep
    /\ poll_log' = [kind |-> "sleep"]
    /\ UNCHANGED <<pending, active, search_info, active_downloads, transfers,
                   dfn_pc, disk, processed, enqueued, seen, album_complete,
                   active_searches, metadata_cache, last_cleanup_time>>

\* The plugin is constructed; searches wait upstream.
InitSweep ==
    /\ now = 0
    /\ pending = MaxSweepSearches
    /\ active = FALSE
    /\ search_info = NoSession
    /\ active_downloads = {}
    /\ transfers = <<>>
    /\ dfn_pc = <<>>
    /\ disk = <<>>
    /\ processed = {}
    /\ enqueued = <<>>
    /\ seen = <<>>
    /\ album_complete = FALSE
    /\ active_searches = <<>>
    /\ poll_log = [kind |-> "init"]
    /\ metadata_cache = <<>>
    /\ last_cleanup_time = 0

-----------------------------------------------------------------------------
(* The lookup of the prefetched album metadata when a completed album track *)
(* is post-processed.                                                      *)

MaxCachedAlbums == 2

\* Variant: an entry expires after the TTL, not at it.
StillValid_AtTTL(age) == age <= CacheTTL

\* if age < self.metadata_cache_max_age
StillValid(age) == age < CacheTTL

\* The position of the entry of the album of the token (0: no entry).
CacheEntryOf(cache, token) ==
    LET hits == {i \in 1..Len(cache) : cache[i].key = token}
    IN IF hits = {} THEN 0 ELSE CHOOSE i \in hits : TRUE

\* _process_single_track_metadata(file_path, track_info, token, ...), the
\* lookup of its album metadata: the entry is used when it is still valid
\* and deleted when it is not.  poll_log keeps what the lookup found and
\* whether the payload got the prefetched metadata.
ProcessSingleTrackMetadata ==
    /\ \E token \in DOMAIN active_searches
                      \cup {metadata_cache[j].key : j \in 1..Len(metadata_cache)} :
       \E i \in {CacheEntryOf(metadata_cache, token)} :
          IF i = 0
          THEN /\ poll_log' = [kind |-> "lookup", token |-> token, found |-> FALSE,
                               age |-> None, prefetched |-> FALSE]
               /\ UNCHANGED metadata_cache
          ELSE /\ poll_log' = [kind |-> "lookup", token |-> token, found |-> TRUE,
                               age |-> now - metadata_cache[i].timestamp,
                               prefetched |-> StillValid(now - metadata_cache[i].timestamp)]
               /\ metadata_cache' =
                     IF StillValid(now - metadata_cache[i].timestamp) THEN metadata_cache
                     ELSE SelectSeq(metadata_cache, LAMBDA e : e.key # token)
    /\ UNCHANGED <<now, pending, active, search_info, active_downloads, transfers,
                   dfn_pc, disk, processed, enqueued, seen, album_complete,
                   active_searches, last_cleanup_time>>

\* The plugin is constructed; album searches wait upstream.
InitCache ==
    /\ now = 0
    /\ pending = MaxCachedAlbums
    /\ active = FALSE
    /\ search_info = NoSession
    /\ active_downloads = {}
    /\ transfers = <<>>
    /\ dfn_pc = <<>>
    /\ disk = <<>>
    /\ processed = {}
    /\ enqueued = <<>>
    /\ seen = <<>>
    /\ album_complete = FALSE
    /\ active_searches = <<>>
    /\ poll_log = [kind |-> "init"]
    /\ metadata_cache = <<>>
    /\ last_cleanup_time = 0

-----------------------------------------------------------------------------
(* The result handler, statement by statement.  The handler runs in the     *)
(* host's thread and the tick in the poll thread; no lock is taken, so the  *)
(* tick can run between two statements of the handler.  poll_log holds the  *)
(* position of the handler.                                                 *)

InsertScores == {60, 140, 180}

MaxInsertResults == 6

MaxInsertTime == 40

\* candidates.append(candidate): the list of the session grows in place.
ResponseAppend ==
    /\ active
    /\ poll_log.kind = "idle"
    /\ search_info.result_count < MaxInsertResults
    /\ \E sc \in InsertScores, u \in {search_info.result_count + 1} :
          search_info' =
             [search_info EXCEPT
                 !.download_candidates =
                     Append(@, [file |-> FileOf(u), user |-> u, score |-> sc])]
    /\ poll_log' = [kind |-> "appended"]
    /\ UNCHANGED <<now, pending, active, active_downloads, transfers, dfn_pc, disk,
                   processed, enqueued, seen, album_complete, active_searches,
                   metadata_cache, last_cleanup_time>>

\* candidates.sort(...) begins: while it sorts, list.sort keeps the items
\* aside and the list object is empty for every other reader.
ResponseSortBegins ==
    /\ poll_log.kind = "appended"
    /\ poll_log' = [kind |-> "sorting", items |-> search_info.download_candidates]
    /\ search_info' = [search_info EXCEPT !.download_candidates = <<>>]
    /\ UNCHANGED <<now, pending, active, active_downloads, transfers, dfn_pc, disk,
                   processed, enqueued, seen, album_complete, active_searches,
                   metadata_cache, last_cleanup_time>>

\* candidates.sort(...) ends: the items are back, in descending order.
ResponseSortEnds ==
    /\ poll_log.kind = "sorting"
    /\ poll_log' = [kind |-> "sorted"]
    /\ search_info' = [search_info EXCEPT !.download_candidates = SortDesc(poll_log.items)]
    /\ UNCHANGED <<now, pending, active, active_downloads, transfers, dfn_pc, disk,
                   processed, enqueued, seen, album_complete, active_searches,
                   metadata_cache, last_cleanup_time>>

\* search_info['download_candidates'] = candidates[:5], then the result
\* count of the session is incremented.
ResponseStore ==
    /\ poll_log.kind = "sorted"
    /\ poll_log' = [kind |-> "idle"]
    /\ search_info' = [search_info EXCEPT !.download_candidates = Take(@, TopK),
                                          !.result_count = @ + 1]
    /\ UNCHANGED <<now, pending, active, active_downloads, transfers, dfn_pc, disk,
                   processed, enqueued, seen, album_complete, active_searches,
                   metadata_cache, last_cleanup_time>>

PollInsert == PollQueueEvery(TimeStep, MaxInsertTime)

\* The plugin is constructed; one track search waits upstream and no
\* response is being handled.
InitInsert ==
    /\ now = 0
    /\ pending = 1
    /\ active = FALSE
    /\ search_info = NoSession
    /\ active_downloads = {}
    /\ transfers = <<>>
    /\ dfn_pc = <<>>
    /\ disk = <<>>
    /\ processed = {}
    /\ enqueued = <<>>
    /\ seen = <<>>
    /\ album_complete = FALSE
    /\ active_searches = <<>>
    /\ poll_log = [kind |-> "idle"]
    /\ metadata_cache = <<>>
    /\ last_cleanup_time = 0

-----------------------------------------------------------------------------
(* A long album that is older than ten minutes when a search is fetched *)

\* The number of completed tracks and the times at which the model takes the
\* album up.
AgedIndexes == {18, 19}

AgedTimes == {580, 590, 600, 610}

MaxAgedTime == 640

\* The session of the long album, registered at 0, after its first k tracks
\* have completed, each within 90 s of its enqueue, and track k + 1 has just
\* been enqueued.  No sweep has run since the construction: the album's own
\* fetch came within the first minute.
InitAged ==
    \E k \in AgedIndexes, t0 \in AgedTimes :
       LET ttd == MatchAlbumTracks(LongTracks, LongFolder)
           trk == ttd[k + 1]
       IN /\ now = t0
          /\ pending = 0
          /\ active = TRUE
          /\ search_info = [NewAlbumSession(0) EXCEPT
                               !.tracks = LongTracks,
                               !.folder_candidates = <<LongFolder>>,
                               !.best_folder = <<LongFolder>>,
                               !.tracks_to_download = ttd,
                               !.current_track_index = k,
                               !.completed_track_count = k,
                               !.download_started_at = t0,
                               !.result_count = LongAlbumLen]
          /\ active_downloads = {Key(trk.user, trk.file_path)}
          /\ transfers = <<[user |-> trk.user, file |-> trk.file_path,
                            status |-> "Queued", offset |-> 0, inqueue |-> TRUE]>>
          /\ dfn_pc = <<"idle">>
          /\ disk = <<"none">>
          /\ processed = {}
          /\ enqueued = <<[user |-> trk.user, file |-> trk.file_path,
                           index |-> k, at |-> t0]>>
          /\ seen = <<>>
          /\ album_complete = FALSE
          /\ active_searches = <<>>
          /\ poll_log = [kind |-> "init"]
          /\ metadata_cache = <<>>
          /\ last_cleanup_time = 0

\* The token of the session and the token of the search that is fetched
\* while the session is registered.
SessionToken == 1

NextToken == SessionToken + 1

\* _poll_queue fetches a further search while the album session is
\* registered: _cleanup_old_data sweeps the registry, the album session
\* included, then _trigger_search registers the new session.
FetchNextSearch ==
    /\ active
    /\ NextToken \notin DOMAIN active_searches
    /\ CleanupOldData
    /\ active' = IF now - last_cleanup_time < CleanupInterval THEN active
                 ELSE SessionToken \in DOMAIN FreshSessions([k \in {SessionToken} |-> search_info], now)
    /\ active_searches' = [k \in {NextToken} |-> [NoSession EXCEPT !.timestamp = now]]
    /\ poll_log' = [kind |-> "fetch", ran |-> last_cleanup_time' # last_cleanup_time]
    /\ UNCHANGED <<now, pending, search_info, active_downloads, transfers, dfn_pc,
                   disk, processed, enqueued, seen, album_complete>>

PollAlbumAged == PollAlbumUntil(MaxAgedTime)

-----------------------------------------------------------------------------
(* Peer results for any token, with or without files *)

MaxMessages == 5

\* The tokens a message can carry: the one of the session and one the
\* plugin has no session for.
MessageTokens == {SessionToken, NextToken}

\* The file lists of a message, each file given by its score: none or one.
FileLists == {<<>>} \cup {<<sc>> : sc \in Scores}

\* Variant: every token is taken for the one of the session.
TokenRegistered_Any(token) == active

\* token in self.active_searches
TokenRegistered(token) == active /\ token = SessionToken

\* _on_file_search_response(msg): the message is dropped when its token is
\* not registered or its file list is empty; else its files are ranked.
\* poll_log keeps the token and the number of files of the last message.
OnPeerResponse ==
    /\ poll_log.count < MaxMessages
    /\ \E token \in MessageTokens, file_list \in FileLists :
          /\ Len(file_list) > 0 => search_info.result_count < MaxResults
          /\ poll_log' = [kind |-> "response", token |-> token,
                          files |-> Len(file_list), count |-> poll_log.count + 1]
          /\ search_info' =
                IF ~TokenRegistered(token) THEN search_info
                ELSE IF Len(file_list) = 0 THEN search_info
                ELSE ProcessTrackSearchResults(search_info, search_info.result_count + 1,
                                               file_list[1])
    /\ UNCHANGED <<now, pending, active, active_downloads, transfers, dfn_pc, disk,
                   processed, enqueued, seen, album_complete, active_searches,
                   metadata_cache, last_cleanup_time>>

\* The plugin is constructed; one track search waits upstream and no
\* message has arrived.
InitMessages ==
    /\ now = 0
    /\ pending = 1
    /\ active = FALSE
    /\ search_info = NoSession
    /\ active_downloads = {}
    /\ transfers = <<>>
    /\ dfn_pc = <<>>
    /\ disk = <<>>
    /\ processed = {}
    /\ enqueued = <<>>
    /\ seen = <<>>
    /\ album_complete = FALSE
    /\ active_searches = <<>>
    /\ poll_log = [kind |-> "init", count |-> 0]
    /\ metadata_cache = <<>>
    /\ last_cleanup_time = 0

-----------------------------------------------------------------------------
(* File scoring: _calculate_file_score.  A string is the sequence of its    *)
(* characters.  A score is a Python number: an int until the word-match     *)
(* share of the file name is added, a float (IEEE 754 binary64, rounded to  *)
(* nearest, ties to even) from then on.  A number is kept as its sign, the  *)
(* whole part of its magnitude and the binary digits of the fractional     *)
(* part, without trailing zeros.                                            *)

UpperCase ==
    <<"A", "B", "C", "D", "E", "F", "G", "H", "I", "J", "K", "L", "M",
      "N", "O", "P", "Q", "R", "S", "T", "U", "V", "W", "X", "Y", "Z">>

LowerCase ==
    <<"a", "b", "c", "d", "e", "f", "g", "h", "i", "j", "k", "l", "m",
      "n", "o", "p", "q", "r", "s", "t", "u", "v", "w", "x", "y", "z">>

DigitChars == <<"0", "1", "2", "3", "4", "5", "6", "7", "8", "9">>

LowerChar(c) ==
    IF \E i \in DOMAIN UpperCase : UpperCase[i] = c
    THEN LowerCase[CHOOSE i \in DOMAIN UpperCase : UpperCase[i] = c]
    ELSE c

\* str.lower()
Lower(s) == [i \in 1..Len(s) |-> LowerChar(s[i])]

IsDigit(c) == \E i \in DOMAIN DigitChars : DigitChars[i] = c

DigitValue(c) == (CHOOSE i \in DOMAIN DigitChars : DigitChars[i] = c) - 1

IsSpace(c) == c = " "

\* int(digits)
RECURSIVE IntOf(_)
IntOf(s) ==
    IF s = <<>> THEN 0
    ELSE 10 * IntOf(SubSeq(s, 1, Len(s) - 1)) + DigitValue(s[Len(s)])

\* sub occurs in s from position i on.
OccursAt(s, sub, i) ==
    /\ i + Len(sub) - 1 <= Len(s)
    /\ \A j \in 1..Len(sub) : s[i + j - 1] = sub[j]

\* sub in s
Contains(s, sub) == \E i \in 1..(Len(s) + 1) : OccursAt(s, sub, i)

\* The end of the run of characters other than white space from i on.
WordEnd(s, i) ==
    CHOOSE j \in i..Len(s) :
        /\ \A q \in i..j : ~IsSpace(s[q])
        /\ j = Len(s) \/ IsSpace(s[j + 1])

\* set(s.split()): the maximal runs of characters other than white space.
SplitWords(s) ==
    {SubSeq(s, i, WordEnd(s, i)) :
        i \in {i \in 1..Len(s) : ~IsSpace(s[i]) /\ (i = 1 \/ IsSpace(s[i - 1]))}}

\* _get_file_format(filename): what follows the last dot, lower-cased.
GetFileFormat(filename) ==
    LET s == Lower(filename)
        dots == {i \in 1..Len(s) : s[i] = "."}
    IN IF dots = {} THEN <<>>
       ELSE SubSeq(s, (CHOOSE i \in dots : \A j \in dots : j <= i) + 1, Len(s))

\* The match of (\d+)\s*k that starts at position i: the run of digits from
\* i on, white space, then the letter k.
DigitRunEnd(s, i) ==
    CHOOSE j \in i..Len(s) :
        /\ \A q \in i..j : IsDigit(s[q])
        /\ j = Len(s) \/ ~IsDigit(s[j + 1])

BitrateMatchAt(s, i) ==
    /\ IsDigit(s[i])
    /\ \E k \in (DigitRunEnd(s, i) + 1)..Len(s) :
          /\ s[k] = "k"
          /\ \A q \in (DigitRunEnd(s, i) + 1)..(k - 1) : IsSpace(s[q])

V0Bitrate == 245

V2Bitrate == 190

\* _extract_bitrate(filename)
ExtractBitrate(filename) ==
    LET s == Lower(filename)
        hits == {i \in 1..Len(s) : BitrateMatchAt(s, i)}
    IN IF hits # {}
       THEN LET i == CHOOSE i \in hits : \A j \in hits : i <= j
            IN IntOf(SubSeq(s, i, DigitRunEnd(s, i)))
       ELSE IF Contains(s, <<"v", "0">>) THEN V0Bitrate
       ELSE IF Contains(s, <<"v", "2">>) THEN V2Bitrate
       ELSE 0

\* The digits of a binary64 significand.
Precision == 53

\* Binary digits of a quotient that are worked out before it is rounded.
QuotientDigits == 64

\* An int as a number.
Number(n) == [neg |-> n < 0, int |-> IF n < 0 THEN 0 - n ELSE n, frac |-> <<>>]

RECURSIVE BitLength(_)
BitLength(n) == IF n = 0 THEN 0 ELSE 1 + BitLength(n \div 2)

BitAt(bits, i) == IF i \in 1..Len(bits) THEN bits[i] ELSE 0

\* The digits without their trailing zeros.
Strip(bits) ==
    LET ones == {i \in 1..Len(bits) : bits[i] = 1}
    IN IF ones = {} THEN <<>>
       ELSE SubSeq(bits, 1, CHOOSE i \in ones : \A j \in ones : j <= i)

\* One unit in the last place is added to int + 0.bits.
NextUp(int, bits) ==
    LET zeros == {i \in 1..Len(bits) : bits[i] = 0}
    IN IF zeros = {} THEN [int |-> int + 1, frac |-> <<>>]
       ELSE LET k == CHOOSE i \in zeros : \A j \in zeros : j <= i
            IN [int |-> int,
                frac |-> Strip([i \in 1..Len(bits) |->
                                   IF i < k THEN bits[i]
                                   ELSE IF i = k THEN 1 ELSE 0])]

\* The binary64 magnitude nearest to int + 0.bits (+ a positive rest smaller
\* than the last digit when sticky), ties to even.
RoundNearestEven(int, bits, sticky) ==
    IF int = 0 /\ Strip(bits) = <<>> /\ ~sticky THEN [int |-> 0, frac |-> <<>>]
    ELSE LET lead == IF Strip(bits) = <<>> THEN Len(bits)
                     ELSE (CHOOSE i \in 1..Len(bits) :
                              bits[i] = 1 /\ \A j \in 1..(i - 1) : bits[j] = 0) - 1
             keep == IF int > 0 THEN Precision - BitLength(int) ELSE lead + Precision
             kept == [i \in 1..keep |-> BitAt(bits, i)]
             rest == sticky \/ \E i \in (keep + 2)..Len(bits) : bits[i] = 1
             odd == IF keep = 0 THEN int % 2 = 1 ELSE kept[keep] = 1
         IN IF BitAt(bits, keep + 1) = 1 /\ (rest \/ odd)
            THEN NextUp(int, kept)
            ELSE [int |-> int, frac |-> Strip(kept)]

\* The first k binary digits of r / n, for r < n, and what is left over.
RECURSIVE QuotientBits(_, _, _)
QuotientBits(r, n, k) ==
    IF k = 0 THEN <<>>
    ELSE <<(2 * r) \div n>> \o QuotientBits((2 * r) % n, n, k - 1)

RECURSIVE QuotientRest(_, _, _)
QuotientRest(r, n, k) ==
    IF k = 0 THEN r ELSE QuotientRest((2 * r) % n, n, k - 1)

\* m / n for ints 0 <= m, 0 < n: true division.
Quotient(m, n) ==
    LET q == RoundNearestEven(m \div n, QuotientBits(m % n, n, QuotientDigits),
                              QuotientRest(m % n, n, QuotientDigits) # 0)
    IN [neg |-> FALSE, int |-> q.int, frac |-> q.frac]

\* The digits of a product are worked out in groups of LimbBits digits.
LimbBits == 24

Limb == 16777216

\* The int whose binary digits are bits.
RECURSIVE BitsToInt(_)
BitsToInt(bits) ==
    IF bits = <<>> THEN 0
    ELSE 2 * BitsToInt(SubSeq(bits, 1, Len(bits) - 1)) + bits[Len(bits)]

RECURSIVE PowerOfTwo(_)
PowerOfTwo(e) == IF e = 0 THEN 1 ELSE 2 * PowerOfTwo(e - 1)

\* The LimbBits binary digits of n < Limb.
IntToBits(n) == [i \in 1..LimbBits |-> (n \div PowerOfTwo(LimbBits - i)) % 2]

\* The i-th group of digits of bits, as an int.
LimbOf(bits, i) ==
    BitsToInt([j \in 1..LimbBits |-> BitAt(bits, (i - 1) * LimbBits + j)])

\* k * 0.bits, exactly, for at most 3 * LimbBits digits and k < 64: the
\* carry into the whole part and the digits.
TimesBits(bits, k) ==
    LET p3 == k * LimbOf(bits, 3)
        p2 == k * LimbOf(bits, 2) + p3 \div Limb
        p1 == k * LimbOf(bits, 1) + p2 \div Limb
    IN [carry |-> p1 \div Limb,
        bits |-> IntToBits(p1 % Limb) \o IntToBits(p2 % Limb) \o IntToBits(p3 % Limb)]

\* x * k for a float x >= 0 and an int k > 0.
Times(x, k) ==
    The({[neg |-> FALSE, int |-> q.int, frac |-> q.frac] :
            q \in {RoundNearestEven(k * x.int + p.carry, p.bits, FALSE) :
                      p \in {TimesBits(x.frac, k)}}})

\* 1 - 0.bits for digits that end in a one.
Complement(bits) ==
    [i \in 1..Len(bits) |-> IF i < Len(bits) THEN 1 - bits[i] ELSE 1]

\* A number as its floor and the digits of what exceeds the floor.
FloorForm(x) ==
    IF ~x.neg THEN [fl |-> x.int, fr |-> x.frac]
    ELSE IF x.frac = <<>> THEN [fl |-> 0 - x.int, fr |-> <<>>]
    ELSE [fl |-> 0 - x.int - 1, fr |-> Complement(x.frac)]

\* The exact sum of a number and an int, not rounded.
ExactPlus(x, k) ==
    LET f == FloorForm(x)
        fl == f.fl + k
    IN IF fl >= 0 THEN [neg |-> FALSE, int |-> fl, frac |-> f.fr]
       ELSE IF f.fr = <<>> THEN [neg |-> TRUE, int |-> 0 - fl, frac |-> <<>>]
       ELSE [neg |-> TRUE, int |-> 0 - fl - 1, frac |-> Complement(f.fr)]

\* score + k, score - k: the sum of a number and an int, rounded when the
\* number is a float (the sum of two ints is exact in either case).
Plus(x, k) ==
    LET s == ExactPlus(x, k)
        q == RoundNearestEven(s.int, s.frac, FALSE)
    IN [neg |-> s.neg, int |-> q.int, frac |-> q.frac]

\* a < b
Less(a, b) ==
    LET x == FloorForm(a)
        y == FloorForm(b)
    IN \/ x.fl < y.fl
       \/ /\ x.fl = y.fl
          /\ \E i \in 1..Len(y.fr) :
                /\ BitAt(x.fr, i) < y.fr[i]
                /\ \A j \in 1..(i - 1) : BitAt(x.fr, j) = y.fr[j]

\* The thresholds and the points of _calculate_file_score.
Bitrate320 == 320

Bitrate256 == 256

Bitrate192 == 192

Bitrate128 == 128

Size8MB == 8000000

Size5MB == 5000000

Size3MB == 3000000

Size1MB == 1000000

NameMatchPoints == 50

PreferredFormat == 200

OtherLossless == 180

FormatFallback == 100

FormatPenalty == 50

VariantPoints == 50

BracketPoints == 30

\* dict.get(key, default); the attributes 0 and 1 are the keys "0" and "1".
AttrGet(attrs, key, default) == IF key \in DOMAIN attrs THEN attrs[key] ELSE default

Abs(n) == IF n < 0 THEN 0 - n ELSE n

\* The bitrate of the attributes, or else of the file name.
BitrateOf(filename_lower, file_attrs) ==
    LET b0 == IF DOMAIN file_attrs # {} THEN AttrGet(file_attrs, "0", 0) ELSE 0
        b1 == IF DOMAIN file_attrs # {} /\ b0 = 0
              THEN AttrGet(file_attrs, "bitrate", 0) ELSE b0
    IN IF b1 = 0 THEN ExtractBitrate(filename_lower) ELSE b1

BitrateScore(bitrate) ==
    IF bitrate >= Bitrate320 THEN 100
    ELSE IF bitrate >= Bitrate256 THEN 80
    ELSE IF bitrate >= Bitrate192 THEN 60
    ELSE IF bitrate >= Bitrate128 THEN 40
    ELSE 0

\* The duration of the attributes.
FileDuration(file_attrs) ==
    LET d0 == IF DOMAIN file_attrs # {} THEN AttrGet(file_attrs, "1", 0) ELSE 0
    IN IF DOMAIN file_attrs # {} /\ d0 = 0
       THEN AttrGet(file_attrs, "duration", 0) ELSE d0

\* Variant: the term is given whenever the file has a duration.
DurationScore_AnyTarget(target_duration, file_duration) ==
    IF file_duration > 0
    THEN IF Abs(file_duration - target_duration) <= 2 THEN 100
         ELSE IF Abs(file_duration - target_duration) <= 5 THEN 80
         ELSE IF Abs(file_duration - target_duration) <= 10 THEN 50
         ELSE IF Abs(file_duration - target_duration) <= 20 THEN 25
         ELSE 0
    ELSE 0

\* The duration match.
DurationScore(target_duration, file_duration) ==
    IF target_duration > 0 /\ file_duration > 0
    THEN IF Abs(file_duration - target_duration) <= 2 THEN 100
         ELSE IF Abs(file_duration - target_duration) <= 5 THEN 80
         ELSE IF Abs(file_duration - target_duration) <= 10 THEN 50
         ELSE IF Abs(file_duration - target_duration) <= 20 THEN 25
         ELSE 0
    ELSE 0

SizeScore(file_size) ==
    IF file_size > Size8MB THEN 50
    ELSE IF file_size > Size5MB THEN 40
    ELSE IF file_size > Size3MB THEN 30
    ELSE IF file_size > Size1MB THEN 20
    ELSE 0

\* The file name match is added to the int score: 50 for the whole query,
\* else the share of the query's words among the file name's words.
PlusNameMatch(score, query_lower, filename_lower) ==
    IF Contains(filename_lower, query_lower) THEN Number(score + NameMatchPoints)
    ELSE LET query_words == SplitWords(query_lower)
             matches == Cardinality(query_words \cap SplitWords(filename_lower))
         IN IF matches > 0
            THEN Plus(Times(Quotient(matches, Cardinality(query_words)),
                            NameMatchPoints), score)
            ELSE Number(score)

Mp3 == <<"m", "p", "3">>

Flac == <<"f", "l", "a", "c">>

Alac == <<"a", "l", "a", "c">>

Wav == <<"w", "a", "v">>

\* The tier of the file's format under the preference.
FormatScore(format_preference, file_format) ==
    IF format_preference = Mp3
    THEN IF file_format = Mp3 THEN PreferredFormat
         ELSE IF file_format \in {Flac, Alac, Wav} THEN FormatFallback
         ELSE 0 - FormatPenalty
    ELSE IF format_preference = Flac
    THEN IF file_format = Flac THEN PreferredFormat
         ELSE IF file_format \in {Alac, Wav} THEN OtherLossless
         ELSE IF file_format = Mp3 THEN FormatFallback
         ELSE 0 - FormatPenalty
    ELSE 0

remix_indicators ==
    <<<<"r", "e", "m", "i", "x">>, <<"m", "i", "x", ")">>, <<"r", "m", "x">>, <<"e", "d", "i", "t">>,
      <<"v", "e", "r", "s", "i", "o", "n">>, <<"f", "e", "a", "t", ".">>,
      <<"f", "t", ".">>, <<"f", "e", "a", "t", "u", "r", "i", "n", "g">>,
      <<"l", "i", "v", "e">>, <<"a", "c", "o", "u", "s", "t", "i", "c">>,
      <<"i", "n", "s", "t", "r", "u", "m", "e", "n", "t", "a", "l">>,
      <<"c", "o", "v", "e", "r">>, <<"k", "a", "r", "a", "o", "k", "e">>,
      <<"r", "a", "d", "i", "o", " ", "e", "d", "i", "t">>,
      <<"e", "x", "t", "e", "n", "d", "e", "d">>, <<"c", "l", "u", "b">>,
      <<"d", "u", "b">>, <<"v", "i", "p">>>>

\* The keywords of the two regular expressions.
BracketIndicators ==
    {<<"r", "e", "m", "i", "x">>, <<"f", "e", "a", "t">>, <<"f", "t">>,
     <<"f", "e", "a", "t", "u", "r", "i", "n", "g">>, <<"e", "d", "i", "t">>,
     <<"v", "e", "r", "s", "i", "o", "n">>, <<"m", "i", "x">>, <<"l", "i", "v", "e">>,
     <<"a", "c", "o", "u", "s", "t", "i", "c">>,
     <<"i", "n", "s", "t", "r", "u", "m", "e", "n", "t", "a", "l">>}

\* Variant: the query is never taken to ask for a variant.
UserWantsVariant_Never(query_lower) == FALSE

\* any(indicator in query_lower for indicator in remix_indicators)
UserWantsVariant(query_lower) ==
    \E i \in DOMAIN remix_indicators : Contains(query_lower, remix_indicators[i])

\* Variant: the loop goes on after a keyword was found.
RECURSIVE IndicatorLoop_NoBreak(_, _)
IndicatorLoop_NoBreak(indicators, filename_lower) ==
    IF indicators = <<>> THEN 0
    ELSE (IF Contains(filename_lower, Head(indicators)) THEN VariantPoints ELSE 0)
         + IndicatorLoop_NoBreak(Tail(indicators), filename_lower)

\* The loop over the keywords: what it subtracts (it breaks at the first
\* keyword that the file name contains).
RECURSIVE IndicatorLoop(_, _)
IndicatorLoop(indicators, filename_lower) ==
    IF indicators = <<>> THEN 0
    ELSE IF Contains(filename_lower, Head(indicators)) THEN VariantPoints
    ELSE IndicatorLoop(Tail(indicators), filename_lower)

\* re.search of open [^close]* keyword [^close]* close
BracketSearch(s, open, close) ==
    \E i \in {i \in 1..Len(s) : s[i] = open} :
        \E a \in (i + 1)..Len(s) :
            /\ \A j \in (i + 1)..(a - 1) : s[j] # close
            /\ \E kw \in BracketIndicators :
                  /\ OccursAt(s, kw, a)
                  /\ \E j \in (a + Len(kw))..Len(s) : s[j] = close

\* What the block of the remixes and alternate versions subtracts.
RemixPenalty(query_lower, filename_lower) ==
    IF UserWantsVariant(query_lower) THEN 0
    ELSE The({IF p # 0 THEN p
              ELSE IF \/ BracketSearch(filename_lower, "(", ")")
                      \/ BracketSearch(filename_lower, "[", "]")
              THEN BracketPoints
              ELSE 0 :
                p \in {IndicatorLoop(remix_indicators, filename_lower)}})

\* The operations after the int terms: the name match, the format tier and
\* the variant penalty.
ScoreFrom(base, query_lower, filename_lower, format_score, penalty) ==
    Plus(Plus(PlusNameMatch(base, query_lower, filename_lower), format_score),
         0 - penalty)

\* The score, from the lower-cased file name and query.
ScoreOf(file_name, filename_lower, file_size, file_attrs, target_duration, query_lower, format_preference) ==
    ScoreFrom(BitrateScore(BitrateOf(filename_lower, file_attrs))
                + DurationScore(target_duration, FileDuration(file_attrs))
                + SizeScore(file_size),
              query_lower, filename_lower,
              FormatScore(format_preference, GetFileFormat(file_name)),
              RemixPenalty(query_lower, filename_lower))

\* _calculate_file_score(file_name, file_size, file_attrs, target_duration,
\*                       query, format_preference)
CalculateFileScore(file_name, file_size, file_attrs, target_duration, query, format_preference) ==
    The({ScoreOf(file_name, f, file_size, file_attrs, target_duration, q,
                 format_preference) :
            f \in {Lower(file_name)}, q \in {Lower(query)}})

\* The searches of the bridge: query, duration of the track (0: not known)
\* and preferred format.
ScoreQueries ==
    {<<"E", "a", "g", "l", "e", "s", " ", "H", "o", "t", "e", "l", " ", "C", "a", "l", "i", "f", "o", "r", "n", "i", "a">>,
     <<"H", "o", "t", "e", "l", " ", "C", "a", "l", "i", "f", "o", "r", "n", "i", "a", " ", "L", "i", "v", "e">>,
     <<"H", "o", "t", "e", "l", " ", "C", "a", "l", "i", "f", "o", "r", "n", "i", "a">>,
     <<"O", "l", "i", "v", "e">>}

ScoreDurations == {0, 200}

FormatPreferences == {Mp3, Flac}

\* The files of the peers: name, size and attributes.
ScoreNames ==
    {<<"E", "a", "g", "l", "e", "s", " ", "H", "o", "t", "e", "l", " ", "C", "a", "l", "i", "f", "o", "r", "n", "i", "a", ".", "f", "l", "a", "c">>,
     <<"H", "o", "t", "e", "l", " ", "C", "a", "l", "i", "f", "o", "r", "n", "i", "a", ".", "f", "l", "a", "c">>,
     <<"H", "o", "t", "e", "l", " ", "C", "a", "l", "i", "f", "o", "r", "n", "i", "a", " ", "(", "L", "i", "v", "e", ")", ".", "m", "p", "3">>,
     <<"H", "o", "t", "e", "l", " ", "C", "a", "l", "i", "f", "o", "r", "n", "i", "a", " ", "(", "f", "e", "a", "t", " ", "J", "o", "e", ")", ".", "m", "p", "3">>,
     <<"H", "o", "t", "e", "l", " ", "C", "a", "l", "i", "f", "o", "r", "n", "i", "a", " ", "[", "m", "i", "x", " ", "2", "]", ".", "o", "g", "g">>,
     <<"H", "o", "t", "e", "l", " ", "(", "L", "i", "v", "e", " ", "R", "e", "m", "i", "x", " ", "E", "d", "i", "t", ")", ".", "F", "L", "A", "C">>,
     <<"H", "o", "t", "e", "l", " ", "3", "2", "0", "k", ".", "w", "a", "v">>,
     <<"h", "o", "t", "e", "l", " ", "V", "0">>}

ScoreSizes == {500000, 9000000}

NoAttrs == [k \in {} |-> 0]

ScoreAttrs ==
    {NoAttrs, [bitrate |-> 256, duration |-> 205]}
    \cup {("0" :> b) @@ ("1" :> d) :
            b \in {0, 128, 320},
            d \in {0, 15, 179, 180, 189, 190, 194, 195, 197, 198, 202}}

MaxScoredResults == 1

\* _trigger_search registers the session of a track search.
TriggerScoredSearch ==
    /\ pending > 0
    /\ pending' = pending - 1
    /\ active' = TRUE
    /\ \E q \in ScoreQueries, d \in ScoreDurations, p \in FormatPreferences :
          search_info' = [query |-> q, duration |-> d, format_preference |-> p]
                         @@ [NoSession EXCEPT !.timestamp = now]
    /\ UNCHANGED <<now, active_downloads, transfers, dfn_pc, disk, processed,
                   enqueued, seen, album_complete, registry>>

\* candidates.sort(key=score, reverse=True) after an append: the new
\* candidate goes behind the candidates that do not score less.
RECURSIVE InsertByScore(_, _)
InsertByScore(sorted, c) ==
    IF sorted = <<>> THEN <<c>>
    ELSE IF ~Less(Head(sorted).score, c.score)
         THEN <<Head(sorted)>> \o InsertByScore(Tail(sorted), c)
         ELSE <<c>> \o sorted

\* _process_track_search_results for a batch of one file of peer u: the
\* file is scored and joins the candidates, of which the best five stay.
ProcessScoredResults(si, u, file_name, file_size, file_attrs) ==
    LET c == [file |-> file_name, user |-> u,
              score |-> CalculateFileScore(file_name, file_size, file_attrs,
                                           si.duration, si.query,
                                           si.format_preference),
              size |-> file_size, attrs |-> file_attrs]
    IN [si EXCEPT !.download_candidates = Take(InsertByScore(@, c), TopK),
                  !.result_count = @ + 1]

ScoredResponse ==
    /\ active
    /\ search_info.result_count < MaxScoredResults
    /\ \E n \in ScoreNames, s \in ScoreSizes, a \in ScoreAttrs :
          search_info' = ProcessScoredResults(search_info,
                                              search_info.result_count + 1, n, s, a)
    /\ UNCHANGED <<now, pending, active, active_downloads, transfers,
                   dfn_pc, disk, processed, enqueued, seen, album_complete, registry>>

-----------------------------------------------------------------------------

(***************************************************************************)
(* Properties                                                              *)
(***************************************************************************)

\* The poll iteration of this step enqueued the candidate of rank idx + 1.
LaunchedInStep(idx) ==
    /\ Len(enqueued') = Len(enqueued) + 1
    /\ enqueued'[Len(enqueued')].index = idx

\* Transfer i completed and its handler returned without handing it on.
Discarded(i) == dfn_pc[i] = "done" /\ i \notin processed

\* C1: for the heads launched for a session, under every interleaving of
\* their completion notifications, at most one is accepted as the winner
\* and handed to post-processing.
C1_ExactlyOneWinner == Cardinality(processed) <= 1

\* C2: a head that completes after another head of the session has won is
\* not handed to post-processing and its output file is deleted, also when
\* the session has already been retired.
C2_LoserFileDeleted ==
    \A i \in 1..Len(transfers) :
        (Discarded(i) /\ processed # {}) => disk[i] = "deleted"

\* C3: once a head has claimed the winner field, the field keeps its value
\* (it is neither overwritten nor cleared) for as long as the session is in
\* the registry.
C3_WinnerSetOnce ==
    [][(active /\ active' /\ search_info.cascade_winner # 0)
          => search_info'.cascade_winner = search_info.cascade_winner]_vars

\* C4: when a head wins, the winning completion handling has, by the time
\* it clears the cascade state and before the handoff to post-processing,
\* cancelled every other head that was in flight.
C4_LosersCancelled ==
    [][\A i \in 1..Len(transfers) :
          (/\ dfn_pc[i] = "cleanup"
           /\ dfn_pc'[i] = "handoff"
           /\ search_info.cascade_mode)
          => \A j \in 1..Len(transfers) :
                (j # i /\ Running(j)) => transfers'[j].status = "CANCELLED"]_vars

\* Seconds since HEAD1's launch and since the session's creation.
CascadeElapsed == now - search_info.cascade_start_time

SessionElapsed == now - search_info.timestamp

C6_SingleWithoutBackup ==
    [][(/\ LaunchedInStep(0)
        /\ search_info.download_candidates[1].score > 100
        /\ \A j \in 2..Len(search_info.download_candidates) :
              search_info.download_candidates[j].score <= 50)
          => ~search_info'.cascade_mode]_vars

\* C7: no download of a session is launched less than 15 s after the
\* session was created.
C7_NoLaunchBefore15 ==
    /\ \A k \in 1..Len(enqueued) :
          enqueued[k].started_at - search_info.timestamp >= 15
    /\ (search_info.timestamp # None /\ SessionElapsed < 15) => transfers = <<>>

\* The first download of a session was launched from a candidate scoring
\* > 100 at the first poll iteration 15 s or more after creation.
C7_Witness ==
    /\ Len(enqueued) >= 1
    /\ enqueued[1].score > 100
    /\ enqueued[1].started_at - search_info.timestamp >= 15
    /\ enqueued[1].started_at - search_info.timestamp < 15 + TimeStep

\* C8: for a session with no download started, a poll iteration between
\* 15 s and 30 s launches nothing unless the best candidate scores > 100;
\* one after 30 s launches the best candidate if it scores > 50 and
\* otherwise removes the session without enqueuing anything; a session
\* removed that way never gets a download.
C8_CollectThenTimeout ==
    /\ [](( /\ search_info.timestamp # None
            /\ ~active
            /\ search_info.current_attempt < 0)
          => (enqueued = <<>> /\ transfers = <<>>))
    /\ [][(now' # now /\ search_info.current_attempt < 0) =>
          LET c == search_info.download_candidates
              e == SessionElapsed
          IN /\ (e >= 15 /\ e <= 30 /\ (c = <<>> \/ c[1].score <= 100))
                   => (enqueued' = enqueued /\ active')
             /\ (e > 30 /\ c # <<>> /\ c[1].score > 50)
                   => /\ LaunchedInStep(0)
                      /\ enqueued'[1].user = c[1].user
                      /\ enqueued'[1].file = c[1].file
                      /\ active'
             /\ (e > 30 /\ (c = <<>> \/ c[1].score <= 50))
                   => (~active' /\ enqueued' = enqueued /\ transfers' = transfers)]_vars

\* The session was removed at the timeout with a best candidate scoring <= 50.
C8_Witness ==
    /\ search_info.timestamp # None
    /\ ~active
    /\ search_info.current_attempt < 0
    /\ search_info.download_candidates # <<>>

\* C9: with candidates scoring 180, 140 and 60 the session runs in cascade
\* mode from the best candidate; the first head to complete is post-processed
\* and the file of any other head that completes is deleted.
C9_EndToEnd ==
    \A i \in 1..Len(transfers) :
        (/\ Len(search_info.download_candidates) = 3
         /\ search_info.download_candidates[1].score = 180
         /\ search_info.download_candidates[2].score = 140
         /\ search_info.download_candidates[3].score = 60
         /\ \A k \in 1..Len(enqueued) :
               enqueued[k].score =
                   search_info.download_candidates[enqueued[k].index + 1].score
         /\ processed # {}
         /\ Discarded(i))
        => disk[i] = "deleted"

C11_MonitorRetry ==
    [][(now' # now) =>
          LET si == search_info
              c == si.download_candidates
              hits == {i \in 1..Len(transfers) :
                          transfers[i].inqueue /\ transfers[i].file = si.last_download_path}
              failure ==
                  \/ hits = {}
                  \/ LET i == CHOOSE i \in hits : \A j \in hits : i <= j
                     IN \/ transfers[i].offset = 0
                        \/ transfers[i].status \in
                              {"USER_LOGGED_OFF", "CONNECTION_CLOSED",
                               "CONNECTION_TIMEOUT", "FILTERED", "CANCELLED"}
          IN /\ (~si.cascade_mode /\ si.current_attempt >= 0) =>
                   IF now - si.download_started_at > 60 /\ failure
                   THEN IF si.current_attempt + 1 < Len(c)
                        THEN /\ LaunchedInStep(si.current_attempt + 1)
                             /\ enqueued'[Len(enqueued')].user = c[si.current_attempt + 2].user
                             /\ enqueued'[Len(enqueued')].file = c[si.current_attempt + 2].file
                        ELSE ~active' /\ enqueued' = enqueued
                   ELSE enqueued' = enqueued
             /\ si.cascade_mode =>
                   \/ enqueued' = enqueued
                   \/ /\ LaunchedInStep(si.cascade_heads_launched)
                      /\ si.cascade_heads_launched \in {1, 2}
                      /\ c[si.cascade_heads_launched + 1].score > 50]_vars

\* The monitor has launched a candidate by retry: the last launch is of a
\* rank the cascade schedule had not reached.
C11_Witness ==
    /\ enqueued # <<>>
    /\ enqueued[Len(enqueued)].index >= search_info.cascade_heads_launched
    /\ ~search_info.cascade_mode

-----------------------------------------------------------------------------

SortedDesc(c) == \A i \in 1..(Len(c) - 1) : c[i].score >= c[i + 1].score

C13_StableRanking ==
    [][~IsAlbum(search_info) /\ seen' # seen =>
          LET c == search_info.download_candidates
              d == search_info'.download_candidates
              new == seen'[Len(seen')]
          IN /\ \A i, j \in 1..Len(d) :
                   i < j /\ d[i].score = d[j].score => d[i].user < d[j].user
             /\ Len(c) = TopK /\ new.score = c[TopK].score => d = c]_vars

\* A candidate has come to a full list with the score of its 5th entry,
\* and two candidates of the list share a score above the 5th's.
C13_Witness ==
    /\ ~IsAlbum(search_info)
    /\ Len(seen) > TopK
    /\ Len(search_info.download_candidates) = TopK
    /\ seen[Len(seen)].score = search_info.download_candidates[TopK].score
    /\ search_info.download_candidates[TopK].user < Len(seen)
    /\ search_info.download_candidates[1].score = search_info.download_candidates[2].score
    /\ search_info.download_candidates[2].score > search_info.download_candidates[TopK].score

PairOf(c) == <<c.user, c.folder_path>>

\* C14: after every album response the folder-candidate list holds at most
\* one entry per (peer, folder path) pair, and the score of a pair that
\* stays in the list never decreases: it changes only to a strictly
\* higher score computed for that pair.
C14_OnePerPair ==
    [][(IsAlbum(search_info) /\ search_info' # search_info) =>
          LET c == search_info.folder_candidates
              d == search_info'.folder_candidates
          IN /\ \A i, j \in 1..Len(d) : PairOf(d[i]) = PairOf(d[j]) => i = j
             /\ \A i \in 1..Len(c), j \in 1..Len(d) :
                   PairOf(c[i]) = PairOf(d[j]) =>
                      \/ d[j].score = c[i].score
                      \/ d[j].score > c[i].score /\ d[j].score = seen'[PairOf(d[j])].best]_vars

\* The list holds a pair whose later, lower score was refused and a pair
\* whose later, higher score replaced the stored one.
C14_Witness ==
    /\ IsAlbum(search_info)
    /\ \E i, j \in 1..Len(search_info.folder_candidates) :
          /\ seen[PairOf(search_info.folder_candidates[i])].again = "kept"
          /\ seen[PairOf(search_info.folder_candidates[j])].again = "raised"

InFlight == {i \in 1..Len(transfers) : Running(i)}

\* C15: the tracks of an album are downloaded one at a time: at every
\* moment at most one track transfer of the session is in flight (enqueued
\* and neither completed nor cancelled).
C15_OneInFlight == IsAlbum(search_info) => Cardinality(InFlight) <= 1

\* The transfer of the current track of the session (0: not in the queue).
CurrentTransfer ==
    LET trk == search_info.tracks_to_download[search_info.current_track_index + 1]
    IN ByKey(transfers, Key(trk.user, trk.file_path))

\* The stall monitor skips the current track: a poll step that moves the
\* session to the next track of the same folder.
SkippedInStep ==
    /\ now' # now
    /\ search_info.best_folder # <<>>
    /\ search_info'.best_folder = search_info.best_folder
    /\ search_info'.current_track_index = search_info.current_track_index + 1

\* C16: the stall monitor skips an album track only if its transfer shows
\* zero transferred bytes 90 s after it was enqueued, and the skipped
\* track's transfer is cancelled when the next track is enqueued.
C16_SkipOnlyStalled ==
    [][SkippedInStep =>
          /\ now - search_info.download_started_at >= TrackStallTimeout
          /\ CurrentTransfer # 0 =>
                /\ transfers[CurrentTransfer].offset = 0
                /\ transfers'[CurrentTransfer].status = "CANCELLED"]_vars

\* The first track of the chosen folder has no bytes more than 15 s after
\* its enqueue, and the poll loop runs.
FirstTrackDeadInStep ==
    /\ now' # now
    /\ IsAlbum(search_info)
    /\ search_info.best_folder # <<>>
    /\ search_info.current_track_index = 0
    /\ search_info.download_started_at # None
    /\ now - search_info.download_started_at > FirstTrackTimeout
    /\ CurrentTransfer # 0
    /\ transfers[CurrentTransfer].offset = 0

\* The queued transfers of the chosen folder.
FolderTransfers ==
    {i \in 1..Len(transfers) :
        /\ transfers[i].inqueue
        /\ transfers[i].user = search_info.best_folder[1].user
        /\ transfers[i].file.folder = search_info.best_folder[1].folder_path}

\* C17: folder bail-out: when the first track of the chosen folder shows
\* zero bytes more than 15 s after its enqueue, every queued transfer of
\* the folder is cancelled and no longer tracked, the folder is marked
\* tried, and the next folder candidate that has not been tried is
\* selected and re-matched; without one the session fails.
C17_FolderBailOut ==
    [][FirstTrackDeadInStep =>
          LET old == search_info.best_folder[1]
              tried == search_info'.tried_folders
              next == NextFolder(search_info.folder_candidates, tried)
          IN /\ \A i \in FolderTransfers :
                   /\ transfers'[i].status = "CANCELLED"
                   /\ TransferKey(i) \notin active_downloads'
             /\ old.folder_path \in tried
             /\ IF next = <<>> THEN ~active'
                ELSE /\ active'
                     /\ search_info'.best_folder = next
                     /\ search_info'.tracks_to_download =
                           MatchAlbumTracks(search_info.tracks, next[1])]_vars

\* C18: an album session selects no folder and enqueues no download while
\* less than 20 s have elapsed since its creation; when more than 40 s
\* have elapsed and no folder is selected, the tick starts the download
\* from the best folder candidate or removes the session as failed.
C18_AlbumCollect ==
    [][IsAlbum(search_info) /\ active /\ search_info.best_folder = <<>> =>
          LET elapsed == now - search_info.timestamp
              fc == search_info.folder_candidates
              started == /\ search_info'.best_folder = <<fc[1]>>
                         /\ Len(enqueued') = Len(enqueued) + 1
                         /\ enqueued'[Len(enqueued')].user = fc[1].user
                         /\ enqueued'[Len(enqueued')].file.folder = fc[1].folder_path
          IN /\ elapsed < AlbumMinCollect \/ now' = now =>
                   search_info'.best_folder = <<>> /\ enqueued' = enqueued
             /\ now' # now /\ elapsed > AlbumMaxCollect =>
                   \/ fc # <<>> /\ started
                   \/ ~active' /\ enqueued' = enqueued]_vars

\* The first download of an album session starts at the first tick 20 s
\* after its creation.
C18_Witness ==
    /\ IsAlbum(search_info)
    /\ Len(enqueued) = 1
    /\ enqueued[1].at - search_info.timestamp = AlbumMinCollect
    /\ search_info.best_folder # <<>>

\* C19: an album session that is retired once its age exceeds 1800 s and
\* at least one of its tracks has completed is finalized with the completed
\* tracks (the album is reported as finished), not aborted as having none.
C19_CeilingFinalizes ==
    [][/\ IsAlbum(search_info)
       /\ active /\ ~active'
       /\ now - search_info.timestamp > AlbumTimeout
       /\ search_info.completed_track_count >= 1
       => album_complete']_vars

\* C20: when the chosen folder holds two .mp3 files that match the first
\* track and differ only in that one carries a recognised release/edition
\* suffix after the track name, the suffixed file is not the one selected
\* for the track, whatever the order of the listing.
C20_UnsuffixedWins ==
    IsAlbum(search_info) /\ search_info.best_folder # <<>> =>
       LET l == search_info.best_folder[1].tracks_found
           ttd == search_info.tracks_to_download
       IN \A i, j \in 1..Len(l) :
             /\ l[i].ext = "mp3" /\ l[j].ext = "mp3"
             /\ l[j].name # l[i].name
             /\ StripSuffix(l[j].name) = l[i].name
             /\ FindWords(NormalizeForMatching(l[i].name),
                          NormalizeForMatching(Track1.track)) # 0
             => \A k \in 1..Len(ttd) :
                   ttd[k].track_info = Track1 => ttd[k].file_path # l[j]

\* The entries of the matcher's output for one expected track.
MatchedAs(ttd, track_info) ==
    {k \in 1..Len(ttd) : ttd[k].track_info = track_info}

\* The .mp3 files of a listing that score above the threshold for a track.
Adequate(l, track_info) ==
    {i \in 1..Len(l) : l[i].ext = "mp3" /\ MatchScore(track_info, l[i]) > MatchThreshold}

\* C21: the output of the album matcher is a one-to-one mapping: no file of
\* the folder is assigned to two expected tracks, each expected track
\* appears at most once, a track is included only with a best candidate
\* scoring above 30, and a track without such a candidate is omitted.
C21_OneToOne ==
    IsAlbum(search_info) /\ search_info.best_folder # <<>> =>
       LET l == search_info.best_folder[1].tracks_found
           ttd == search_info.tracks_to_download
       IN /\ \A j, k \in 1..Len(ttd) :
                ttd[j].file_path = ttd[k].file_path => j = k
          /\ \A i \in 1..Len(AlbumTracks) :
                /\ Cardinality(MatchedAs(ttd, AlbumTracks[i])) <= 1
                /\ Adequate(l, AlbumTracks[i]) = {}
                      <=> MatchedAs(ttd, AlbumTracks[i]) = {}
                /\ \A k \in MatchedAs(ttd, AlbumTracks[i]) :
                      \E f \in Adequate(l, AlbumTracks[i]) :
                         /\ l[f] = ttd[k].file_path
                         /\ \A g \in Adequate(l, AlbumTracks[i]) :
                               MatchScore(AlbumTracks[i], l[g])
                                  <= MatchScore(AlbumTracks[i], l[f])

\* C21, the part of it that holds: everything but the first conjunct.
C21_BestAboveThreshold ==
    IsAlbum(search_info) /\ search_info.best_folder # <<>> =>
       LET l == search_info.best_folder[1].tracks_found
           ttd == search_info.tracks_to_download
       IN \A i \in 1..Len(AlbumTracks) :
             /\ Cardinality(MatchedAs(ttd, AlbumTracks[i])) <= 1
             /\ Adequate(l, AlbumTracks[i]) = {}
                   <=> MatchedAs(ttd, AlbumTracks[i]) = {}
             /\ \A k \in MatchedAs(ttd, AlbumTracks[i]) :
                   \E f \in Adequate(l, AlbumTracks[i]) :
                      /\ l[f] = ttd[k].file_path
                      /\ \A g \in Adequate(l, AlbumTracks[i]) :
                            MatchScore(AlbumTracks[i], l[g])
                               <= MatchScore(AlbumTracks[i], l[f])

C23_EventuallyRetired == active ~> ~active

\* C23 happens: a track session whose transfers never completed has been
\* retired by the five minute limit.
C23_Witness ==
    /\ ~active
    /\ ~IsAlbum(search_info)
    /\ search_info.timestamp # None
    /\ now - search_info.timestamp > SearchTimeout
    /\ \E i \in 1..Len(transfers) : transfers[i].status = "Transferring"

\* The transfer of the head that was launched last (0: none in the queue).
LastHeadTransfer ==
    ByKey(transfers, Key(search_info.last_download_user, search_info.last_download_path))

\* C24: at a poll iteration that finds the transfer of the last head with a
\* terminal status, the head is treated as failed at once: the next
\* candidate is launched or the session is retired, also when 60 s have
\* not passed since the launch.
C24_TerminalImmediate ==
    [][/\ now' # now
       /\ active /\ ~IsAlbum(search_info)
       /\ search_info.current_attempt >= 0
       /\ LastHeadTransfer # 0
       /\ transfers[LastHeadTransfer].status \in TerminalStatus
       => \/ ~active'
          \/ Len(enqueued') > Len(enqueued)]_vars

\* The entries of a cache as a set.
Entries(cache) == {cache[i] : i \in 1..Len(cache)}

\* C25: after a sweep that runs (one that its 60 s throttle does not skip)
\* no session of the registry is older than 600 s, no entry of the metadata
\* cache is older than 600 s, the cache holds at most its maximum number of
\* entries, and the entries it holds are at least as recent as every
\* unexpired entry that was dropped.
C25_SweepEvicts ==
    [][last_cleanup_time' # last_cleanup_time =>
          /\ \A k \in DOMAIN active_searches' :
                now' - active_searches'[k].timestamp <= SessionTTL
          /\ \A e \in Entries(metadata_cache') : now' - e.timestamp <= CacheTTL
          /\ Len(metadata_cache') <= CacheMaxSize
          /\ Entries(metadata_cache') \subseteq Entries(metadata_cache)
          /\ \A d \in Entries(metadata_cache) \ Entries(metadata_cache') :
                \/ now' - d.timestamp > CacheTTL
                \/ /\ Len(metadata_cache') = CacheMaxSize
                   /\ \A e \in Entries(metadata_cache') : e.timestamp >= d.timestamp]_vars

\* C25 happens: the sweep of the last fetch ran, removed a session and cut
\* the cache to its limit.
C25_Witness ==
    /\ poll_log.kind = "fetch"
    /\ poll_log.ran
    /\ poll_log.stale # {}
    /\ poll_log.trimmed > 0
    /\ Len(metadata_cache) = CacheMaxSize

\* The (peer, path) pairs the completion handling of transfer i issues a
\* cancel request for: the tracked heads other than the winner.
CancelRequests(i) ==
    {Key(h.user, h.file) :
        h \in {g \in {search_info.cascade_heads[j] :
                        j \in 1..Len(search_info.cascade_heads)} :
                  /\ g.index # HeadIndexOf(search_info.cascade_heads, TransferKey(i))
                  /\ Key(g.user, g.file) \in active_downloads \ {TransferKey(i)}}}

\* C26: a cancel request issued for a head stops only the transfer of that
\* head's own (peer, path) pair: every transfer that leaves the queue while
\* the winner's completion handling cancels the other heads is the transfer
\* of one of the heads the requests were issued for, never the transfer of
\* another peer that has the same virtual path.
C26_CancelOwnTransfer ==
    [][\A i \in 1..Len(transfers) :
          (/\ dfn_pc[i] = "cleanup"
           /\ dfn_pc'[i] = "handoff"
           /\ search_info.cascade_mode)
          => \A j \in 1..Len(transfers) :
                (transfers[j].inqueue /\ ~transfers'[j].inqueue)
                   => TransferKey(j) \in CancelRequests(i)]_vars

\* The candidates of the session, scored.
Scored == {search_info.download_candidates[i] :
              i \in 1..Len(search_info.download_candidates)}

\* The int terms of a candidate's score: bitrate, duration and size.
BaseScore(c) ==
    BitrateScore(BitrateOf(Lower(c.file), c.attrs))
    + DurationScore(search_info.duration, FileDuration(c.attrs))
    + SizeScore(c.size)

\* The score of a candidate's file under a format preference, the other
\* inputs being those of the session.
ScoreUnder(c, format_preference) ==
    CalculateFileScore(c.file, c.size, c.attrs, search_info.duration,
                       search_info.query, format_preference)

\* The exact preferred format adds 200 and a format outside the tiers
\* subtracts 50, under either preference.
C27_TierTerms ==
    \A c \in Scored :
        /\ GetFileFormat(c.file) = search_info.format_preference
              => c.score = ScoreFrom(BaseScore(c), Lower(search_info.query),
                                     Lower(c.file), 200,
                                     RemixPenalty(Lower(search_info.query), Lower(c.file)))
        /\ GetFileFormat(c.file) \notin {Mp3, Flac, Alac, Wav}
              => c.score = ScoreFrom(BaseScore(c), Lower(search_info.query),
                                     Lower(c.file), 0 - 50,
                                     RemixPenalty(Lower(search_info.query), Lower(c.file)))

\* C27: for a flac file the score under the flac preference is at least the
\* score under the mp3 preference plus 100, the other inputs being the same;
\* the exact preferred format adds 200 and a format outside the tiers
\* subtracts 50.
C27_FormatTiering ==
    /\ \A c \in Scored :
          GetFileFormat(c.file) = Flac
             => ~Less(ExactPlus(ScoreUnder(c, Flac), 0 - 100), ScoreUnder(c, Mp3))
    /\ C27_TierTerms

\* A score below zero is kept as it is.
C27_Negative == \E c \in Scored : c.score.neg

\* The string contains a keyword of the variant list.
HasKeyword(s) == \E i \in DOMAIN remix_indicators : Contains(s, remix_indicators[i])

\* The score of a candidate if the variant block subtracted penalty.
ScoreWithPenalty(c, penalty) ==
    ScoreFrom(BaseScore(c), Lower(search_info.query), Lower(c.file),
              FormatScore(search_info.format_preference, GetFileFormat(c.file)),
              penalty)

\* C28: a file scored for a query that contains a variant keyword has no
\* variant penalty in its score; a file whose name contains a variant
\* keyword, scored for a query that contains none, has the penalty in it.
C28_PenaltyUnlessQueryVariant ==
    \A c \in Scored :
        /\ HasKeyword(Lower(search_info.query)) => c.score = ScoreWithPenalty(c, 0)
        /\ (~HasKeyword(Lower(search_info.query)) /\ HasKeyword(Lower(c.file)))
              => c.score = ScoreWithPenalty(c, 50)

\* A file with a variant keyword in its name was scored for a query with a
\* variant keyword.
C28_Witness ==
    \E c \in Scored :
        /\ HasKeyword(Lower(search_info.query))
        /\ HasKeyword(Lower(c.file))
        /\ c.score = ScoreWithPenalty(c, 0)

\* C29: the variant penalty of a score is 0, 50 or 30; it is 50, once, for a
\* file name with any number of keywords of the list (the query having
\* none), and 30 only for a file name without a keyword of the list.
C29_PenaltyOnce ==
    \A c \in Scored :
        /\ \E p \in {0, 50, 30} : c.score = ScoreWithPenalty(c, p)
        /\ (~HasKeyword(Lower(search_info.query)) /\ HasKeyword(Lower(c.file)))
              => c.score = ScoreWithPenalty(c, 50)
        /\ c.score = ScoreWithPenalty(c, 30) => ~HasKeyword(Lower(c.file))

\* A file name with three keywords of the list was scored for a query
\* without one.
C29_Witness ==
    \E c \in Scored :
        /\ ~HasKeyword(Lower(search_info.query))
        /\ Cardinality({i \in DOMAIN remix_indicators :
                           Contains(Lower(c.file), remix_indicators[i])}) >= 3
        /\ c.score = ScoreWithPenalty(c, 50)

\* The bracket penalty was applied.
C29_Bracket ==
    \E c \in Scored : ~HasKeyword(Lower(c.file)) /\ c.score = ScoreWithPenalty(c, 30)

\* The duration term of the claim, for a target and a file duration.
DurationPoints(target, file) ==
    IF target > 0 /\ file > 0
    THEN IF Abs(file - target) <= 2 THEN 100
         ELSE IF Abs(file - target) <= 5 THEN 80
         ELSE IF Abs(file - target) <= 10 THEN 50
         ELSE IF Abs(file - target) <= 20 THEN 25
         ELSE 0
    ELSE 0

\* C30: the duration term of a score is 100, 80, 50, 25 or 0 for a
\* difference of at most 2, 5, 10, 20 or more seconds when the target and
\* the file duration are both positive, and 0 when either is missing or 0.
C30_DurationTerm ==
    \A c \in Scored :
        c.score = ScoreFrom(BitrateScore(BitrateOf(Lower(c.file), c.attrs))
                              + DurationPoints(search_info.duration,
                                               FileDuration(c.attrs))
                              + SizeScore(c.size),
                            Lower(search_info.query), Lower(c.file),
                            FormatScore(search_info.format_preference,
                                        GetFileFormat(c.file)),
                            RemixPenalty(Lower(search_info.query), Lower(c.file)))

\* A file of 15 seconds was scored for a search without a target duration.
C30_Witness ==
    \E c \in Scored :
        /\ search_info.duration = 0
        /\ FileDuration(c.attrs) \in 1..20
        /\ c.score = ScoreWithPenalty(c, RemixPenalty(Lower(search_info.query),
                                                      Lower(c.file)))

\* C31: in an album session the transfer whose completion is handled, and
\* whose file is handed to post-processing with the metadata of the track at
\* the current track index, is the transfer of that track.
C31_CompletionOfCurrentTrack ==
    [][\A i \in processed' \ processed :
          IsAlbum(search_info)
             => /\ search_info.current_track_index < Len(search_info.tracks_to_download)
                /\ TransferKey(i) =
                      Key(search_info.tracks_to_download[
                              search_info.current_track_index + 1].user,
                          search_info.tracks_to_download[
                              search_info.current_track_index + 1].file_path)]_vars

\* C32: every key of the transfer tracking maps to a session that is in
\* the registry; once the session is retired no tracked transfer is left.
C32_NoDanglingTracking == active_downloads # {} => active

\* C33: the heads launched for the track session are distinct candidates: no
\* (peer, path) pair is enqueued twice, also when late results re-rank the
\* candidate list between two launches.
C33_DistinctHeads ==
    \A i, j \in 1..Len(enqueued) :
        (enqueued[i].user = enqueued[j].user /\ enqueued[i].file = enqueued[j].file)
            => i = j

\* C34: the age-based sweep of the registry does not remove an album session
\* that has a download in progress and has not reached its 30 minute ceiling.
C34_SweepSparesDownloadingAlbum ==
    [][(/\ last_cleanup_time' # last_cleanup_time
        /\ active
        /\ IsAlbum(search_info)
        /\ search_info.download_started_at # None
        /\ \E i \in 1..Len(transfers) :
              Running(i) /\ Key(transfers[i].user, transfers[i].file) \in active_downloads
        /\ now - search_info.timestamp <= AlbumTimeout)
          => active']_vars

\* The folder candidates, as (peer, folder path) pairs, that the session has
\* started a download from.
TriedCandidates ==
    {<<enqueued[i].user, enqueued[i].file.folder>> : i \in 1..Len(enqueued)}

\* C35: a folder bail-out ends the album session as failed only when every
\* folder candidate of the list, identified by its peer and its folder path,
\* has been tried; while an untried candidate remains the session goes on.
C35_BailOutTriesEveryCandidate ==
    [][FirstTrackDeadInStep /\ ~active' =>
          \A j \in 1..Len(search_info.folder_candidates) :
             <<search_info.folder_candidates[j].user,
               search_info.folder_candidates[j].folder_path>> \in TriedCandidates]_vars

\* C36: the download decision of the track session fires at most once: once
\* a download has been launched no step launches HEAD1 (the candidate at
\* index 0) again, also after a winner has cleared the cascade flag and
\* while late results keep arriving.
C36_DecisionOnce ==
    [][enqueued # <<>> =>
          \A i \in (Len(enqueued) + 1)..Len(enqueued') : enqueued'[i].index # 0]_vars

\* C36 happens: a winner has cleared the cascade flag of the session, which
\* is still registered; a late result has gone ahead of the candidate HEAD1
\* was launched for; a later tick has retried with a further candidate.
C36_Witness ==
    /\ active
    /\ search_info.cascade_start_time # None
    /\ ~search_info.cascade_mode
    /\ enqueued # <<>>
    /\ Key(enqueued[1].user, enqueued[1].file) #
          Key(search_info.download_candidates[1].user,
              search_info.download_candidates[1].file)
    /\ Len(enqueued) > search_info.cascade_heads_launched

\* C37: while the result handler inserts a candidate concurrently with the
\* tick, the tick never observes a candidate list of more than 5 entries or
\* one that is not sorted by descending score, and the candidate it launches
\* as HEAD1 is the highest-scoring candidate inserted so far.
C37_TickObservesRankedList ==
    [][now' # now /\ active =>
          /\ Len(search_info.download_candidates) <= TopK
          /\ SortedDesc(search_info.download_candidates)
          /\ (enqueued = <<>> /\ enqueued' # <<>>) =>
                \A c \in {search_info.download_candidates[i] :
                              i \in 1..Len(search_info.download_candidates)}
                         \cup (IF poll_log.kind = "sorting"
                               THEN {poll_log.items[i] : i \in 1..Len(poll_log.items)}
                               ELSE {}) :
                   enqueued'[1].score >= c.score]_vars

\* C38: a cached album-metadata entry whose age has reached the cache TTL
\* is never used for post-processing: the lookup that finds it removes it
\* and goes on as if there were no entry, the other entries staying.
C38_ExpiredEntryNotUsed ==
    [][poll_log'.kind = "lookup" =>
          \A e \in Entries(metadata_cache) :
              (e.key = poll_log'.token /\ now - e.timestamp >= CacheTTL)
                 => /\ ~poll_log'.prefetched
                    /\ Entries(metadata_cache') = Entries(metadata_cache) \ {e}]_vars

\* C38 happens: the lookup found an entry as old as the TTL or older and
\* dropped it, another entry staying in the cache.
C38_Witness ==
    /\ poll_log.kind = "lookup"
    /\ poll_log.found
    /\ poll_log.age = CacheTTL
    /\ ~poll_log.prefetched
    /\ metadata_cache # <<>>
    /\ \A e \in Entries(metadata_cache) : e.key # poll_log.token

\* C39: a peer result whose token is not in the registry, or whose file list
\* is empty, leaves every session, every candidate list and the transfer
\* tracking unchanged.
C39_ForeignOrEmptyResult ==
    [][(/\ poll_log' # poll_log
        /\ poll_log'.kind = "response"
        /\ \/ ~(active /\ poll_log'.token = SessionToken)
           \/ poll_log'.files = 0)
          => UNCHANGED <<active, search_info, active_downloads, active_searches>>]_vars

\* C39 happens: a message with files for a token without a session has been
\* handled while the session has candidates and a tracked transfer.
C39_Witness ==
    /\ poll_log.kind = "response"
    /\ poll_log.token # SessionToken
    /\ poll_log.files > 0
    /\ active
    /\ search_info.download_candidates # <<>>
    /\ active_downloads # {}

\* C39 happens: a message without files for the token of the session has
\* been handled while the session has candidates.
C39_WitnessEmpty ==
    /\ poll_log.kind = "response"
    /\ poll_log.token = SessionToken
    /\ poll_log.files = 0
    /\ active
    /\ search_info.download_candidates # <<>>

Next ==
    \/ TriggerSearch
    \/ PollQueue
    \/ OnFileSearchResponse
    \/ MonitorDownloadProgress
    \/ \E i \in 1..Len(transfers) : TransferProgress(i)
    \/ \E i \in 1..Len(transfers) : TransferFinish(i)
    \/ \E i \in 1..Len(transfers) : DfnCheck(i)
    \/ \E i \in 1..Len(transfers) : DfnClaim(i)
    \/ \E i \in 1..Len(transfers) : DfnCleanup(i)
    \/ \E i \in 1..Len(transfers) : DfnHandoff(i)

Spec == Init /\ [][Next]_vars

\* Ranking: a session that only receives results.
NextRank ==
    \/ ReceiveTrackResults
    \/ ReceiveAlbumResults

SpecRank == InitRank /\ [][NextRank]_vars

\* An album session from its registration on.
NextAlbum ==
    \/ TriggerAlbumSearch
    \/ AlbumResponse
    \/ PollAlbum
    \/ \E i \in 1..Len(transfers) : TransferProgress(i)
    \/ \E i \in 1..Len(transfers) : TransferFinish(i)
    \/ \E i \in 1..Len(transfers) : AlbumDfn(i)

SpecAlbum == InitAlbum /\ [][NextAlbum]_vars

\* The long album from shortly before its 30 minute ceiling.
NextLate ==
    \/ PollAlbumLate
    \/ \E i \in 1..Len(transfers) : TransferProgress(i)
    \/ \E i \in 1..Len(transfers) : TransferFinish(i)
    \/ \E i \in 1..Len(transfers) : AlbumDfn(i)

SpecLate == InitLate /\ [][NextLate]_vars

\* The matcher applied to the listings of a folder.
NextMatch == PollAlbumMatch

SpecMatch == InitMatch /\ [][NextMatch]_vars

\* Two sessions, with exceptions.
NextSessions ==
    \/ TriggerSessions
    \/ PollSessions
    \/ SessionResponse

SpecSessions == InitSessions /\ [][NextSessions]_vars

\* A track or an album session until it is retired, the poll thread never
\* stopping.
LiveStep == 20

MaxLiveTime == 320

MaxLiveResults == 2

LiveScores == {40, 60, 140}

PollLive ==
    IF IsAlbum(search_info) THEN PollAlbumEvery(LiveStep, MaxLiveTime)
    ELSE PollQueueEvery(LiveStep, MaxLiveTime)

LiveAlbumScores == {40, 120, 160}

MaxLiveFiles == 4

LiveFolderResponse == FolderResponse(MaxLiveFiles, LiveAlbumScores)

LiveResponse == ~IsAlbum(search_info) /\ FileSearchResponse(MaxLiveResults, LiveScores)

NextLive ==
    \/ TriggerSearch
    \/ TriggerAlbumSearch
    \/ PollLive
    \/ LiveResponse
    \/ LiveFolderResponse
    \/ ~IsAlbum(search_info) /\ MonitorDownloadProgress
    \/ \E i \in 1..Len(transfers) : TransferProgress(i)
    \/ \E i \in 1..Len(transfers) : TransferFinish(i)
    \/ \E i \in 1..Len(transfers) : ~IsAlbum(search_info) /\ DfnCheck(i)
    \/ \E i \in 1..Len(transfers) : DfnClaim(i)
    \/ \E i \in 1..Len(transfers) : DfnCleanup(i)
    \/ \E i \in 1..Len(transfers) : DfnHandoff(i)
    \/ \E i \in 1..Len(transfers) : AlbumDfn(i)

SpecLive == Init /\ [][NextLive]_vars /\ WF_vars(PollLive)

\* A track session whose transfers may fail on the peer's side.
NextFail ==
    \/ TriggerSearch
    \/ PollQueue
    \/ LiveResponse
    \/ MonitorDownloadProgress
    \/ \E i \in 1..Len(transfers) : TransferProgress(i)
    \/ \E i \in 1..Len(transfers) : TransferFail(i)

SpecFail == Init /\ [][NextFail]_vars

\* The registry and the metadata cache under the eviction sweep.
NextSweep ==
    \/ FetchSearch
    \/ CachePut
    \/ ClockTick

SpecSweep == InitSweep /\ [][NextSweep]_vars

\* A track search and the scoring of the results of its peers.
NextScore ==
    \/ TriggerScoredSearch
    \/ ScoredResponse

SpecScore == Init /\ [][NextScore]_vars

\* The long album while a further search is fetched.
NextAged ==
    \/ FetchNextSearch
    \/ PollAlbumAged
    \/ \E i \in 1..Len(transfers) : TransferProgress(i)
    \/ \E i \in 1..Len(transfers) : TransferFinish(i)
    \/ \E i \in 1..Len(transfers) : AlbumDfn(i)

SpecAged == InitAged /\ [][NextAged]_vars

\* A track session whose result handler and tick interleave.
NextInsert ==
    \/ TriggerSearch
    \/ PollInsert
    \/ ResponseAppend
    \/ ResponseSortBegins
    \/ ResponseSortEnds
    \/ ResponseStore

SpecInsert == InitInsert /\ [][NextInsert]_vars

\* Album sessions, their prefetched metadata, the sweep and the lookup.
NextCache ==
    \/ FetchSearch
    \/ CachePut
    \/ ClockTick
    \/ ProcessSingleTrackMetadata

SpecCache == InitCache /\ [][NextCache]_vars

\* A track session and the messages of the peers, foreign and empty ones
\* included.
NextMessages ==
    \/ TriggerSearch
    \/ PollQueue
    \/ OnPeerResponse

SpecMessages == InitMessages /\ [][NextMessages]_vars

=========================================================================
